---- MODULE Spec2Model ----
(***************************************************************************)
(* Cricket shot analysis: the frame-by-frame phase segmentation generator  *)
(* analyze_cricket_shot, the shot classifier detect_shot_type, the scoring  *)
(* functions of ImprovementEngine and the advice, summary and narrative    *)
(* operations of CricketAdviceEngine.                                      *)
(*                                                                         *)
(* Floating point values are modelled as exact rationals [n, d] in lowest  *)
(* terms with d > 0.                                                       *)
(***************************************************************************)
EXTENDS Integers, Sequences, FiniteSets, TLC

VARIABLES
    pc,                     \* position of the analyze_cricket_shot generator
    capOpened,              \* cap.isOpened() after cv2.VideoCapture(video_path)
    capReleased,            \* cap.release() has been called
    stage,                  \* local `stage`
    follow_through_frames,  \* local `follow_through_frames`
    phase_data,             \* local `phase_data`
    frame,                  \* the frame read by the last cap.read()
    yielded,                \* the pairs yielded so far, oldest first
    final_metrics,          \* local `final_metrics`
    frames_read,            \* history: number of frames cap.read() has returned
    ft_first,               \* history: number of the frame that first reached FOLLOW_THROUGH
    args,                   \* arguments of the pure function under check
    ret,                    \* its return value
    OPENAI_API_KEY,         \* advice_engine.OPENAI_API_KEY, read from the environment at import
    openai_client,          \* advice_engine.openai_client
    random_state            \* the state of the generator of the module random

vars == <<pc, capOpened, capReleased, stage, follow_through_frames, phase_data,
          frame, yielded, final_metrics, frames_read, ft_first, args, ret,
          OPENAI_API_KEY, openai_client, random_state>>

runVars == <<pc, capOpened, capReleased, stage, follow_through_frames, phase_data,
             frame, yielded, final_metrics, frames_read, ft_first>>

\* The globals of the module advice_engine and of the module random
moduleVars == <<OPENAI_API_KEY, openai_client, random_state>>

-----------------------------------------------------------------------------
(* Exact arithmetic standing for Python float arithmetic *)

AbsInt(i) == IF i < 0 THEN -i ELSE i

RECURSIVE GCD(_, _)
GCD(a, b) == IF b = 0 THEN a ELSE GCD(b, a % b)

Rat(n, d) ==
    LET s == IF d < 0 THEN -1 ELSE 1
        g == GCD(AbsInt(n), AbsInt(d))
    IN  [n |-> (s * n) \div g, d |-> (s * d) \div g]

R(i) == [n |-> i, d |-> 1]

RAdd(a, b) == Rat(a.n * b.d + b.n * a.d, a.d * b.d)
RSub(a, b) == Rat(a.n * b.d - b.n * a.d, a.d * b.d)
RMul(a, b) == Rat(a.n * b.n, a.d * b.d)
RDiv(a, b) == Rat(a.n * b.d, a.d * b.n)
RAbs(a)    == [n |-> AbsInt(a.n), d |-> a.d]
RLt(a, b)  == a.n * b.d < b.n * a.d
RLe(a, b)  == a.n * b.d <= b.n * a.d
RMin(a, b) == IF RLe(a, b) THEN a ELSE b
RMax(a, b) == IF RLe(b, a) THEN a ELSE b

RECURSIVE SumSeq(_)
SumSeq(s) == IF s = <<>> THEN R(0) ELSE RAdd(Head(s), SumSeq(Tail(s)))

\* np.mean of a non-empty list
NpMean(s) == RDiv(SumSeq(s), R(Len(s)))

RECURSIVE MaxSeq(_)
MaxSeq(s) == IF Len(s) = 1 THEN s[1] ELSE RMax(s[1], MaxSeq(Tail(s)))

MaxInt(a, b) == IF a >= b THEN a ELSE b

-----------------------------------------------------------------------------
(* analysis.py: detect_shot_type *)

Label(t, c) == [shot_type |-> t, confidence |-> c]

\* Lines 29-41: the key indicators
ShotFeatures(pd) ==
    [body_rotation |->
        IF pd["STANCE"].body_directions # <<>> /\ pd["DOWNSWING"].body_directions # <<>>
        THEN RAbs(RSub(NpMean(pd["STANCE"].body_directions),
                       pd["DOWNSWING"].body_directions[Len(pd["DOWNSWING"].body_directions)]))
        ELSE R(0),
     weight_shift |->
        IF pd["STANCE"].weight_transfers # <<>> /\ pd["DOWNSWING"].weight_transfers # <<>>
        THEN RMul(RSub(pd["DOWNSWING"].weight_transfers[Len(pd["DOWNSWING"].weight_transfers)],
                       NpMean(pd["STANCE"].weight_transfers)), R(100))
        ELSE R(0),
     backlift_height |->
        RDiv(R(Len(pd["BACKLIFT"].knee_angles)),
             R(MaxInt(Len(pd["STANCE"].knee_angles), 1))),
     downswing_len |-> Len(pd["DOWNSWING"].knee_angles),
     backlift_len |-> Len(pd["BACKLIFT"].knee_angles)]

\* Mutant: the CUT rule tested before the PULL/HOOK rule
ClassifyShot_cut_first(k) ==
    IF RLt(k.body_rotation, R(15)) /\ RLt(RAbs(k.weight_shift), R(5))
       /\ RLt(k.backlift_height, Rat(1, 2))
    THEN Label("DEFENSIVE", Rat(85, 100))
    ELSE IF RLt(R(5), k.weight_shift) /\ RLe(R(15), k.body_rotation)
            /\ RLe(k.body_rotation, R(45))
    THEN Label("DRIVE", Rat(80, 100))
    ELSE IF RLt(R(45), k.body_rotation) /\ RLt(k.weight_shift, R(3))
            /\ k.downswing_len < k.backlift_len
    THEN Label("CUT", Rat(75, 100))
    ELSE IF RLt(R(50), k.body_rotation) /\ RLt(k.weight_shift, R(5))
    THEN Label("PULL/HOOK", Rat(75, 100))
    ELSE IF RLt(R(60), k.body_rotation)
    THEN Label("SWEEP", Rat(70, 100))
    ELSE IF RLt(Rat(12, 10), k.backlift_height) /\ RLt(R(30), k.body_rotation)
    THEN Label("LOFTED", Rat(70, 100))
    ELSE Label("FORWARD SHOT", Rat(60, 100))

\* Mutant: the SWEEP rule tested before the PULL/HOOK rule
ClassifyShot_sweep_first(k) ==
    IF RLt(k.body_rotation, R(15)) /\ RLt(RAbs(k.weight_shift), R(5))
       /\ RLt(k.backlift_height, Rat(1, 2))
    THEN Label("DEFENSIVE", Rat(85, 100))
    ELSE IF RLt(R(5), k.weight_shift) /\ RLe(R(15), k.body_rotation)
            /\ RLe(k.body_rotation, R(45))
    THEN Label("DRIVE", Rat(80, 100))
    ELSE IF RLt(R(60), k.body_rotation)
    THEN Label("SWEEP", Rat(70, 100))
    ELSE IF RLt(R(50), k.body_rotation) /\ RLt(k.weight_shift, R(5))
    THEN Label("PULL/HOOK", Rat(75, 100))
    ELSE IF RLt(R(45), k.body_rotation) /\ RLt(k.weight_shift, R(3))
            /\ k.downswing_len < k.backlift_len
    THEN Label("CUT", Rat(75, 100))
    ELSE IF RLt(Rat(12, 10), k.backlift_height) /\ RLt(R(30), k.body_rotation)
    THEN Label("LOFTED", Rat(70, 100))
    ELSE Label("FORWARD SHOT", Rat(60, 100))

\* Lines 43-82: the shot classification logic
ClassifyShot(k) ==
    IF RLt(k.body_rotation, R(15)) /\ RLt(RAbs(k.weight_shift), R(5))
       /\ RLt(k.backlift_height, Rat(1, 2))
    THEN Label("DEFENSIVE", Rat(85, 100))
    ELSE IF RLt(R(5), k.weight_shift) /\ RLe(R(15), k.body_rotation)
            /\ RLe(k.body_rotation, R(45))
    THEN Label("DRIVE", Rat(80, 100))
    ELSE IF RLt(R(50), k.body_rotation) /\ RLt(k.weight_shift, R(5))
    THEN Label("PULL/HOOK", Rat(75, 100))
    ELSE IF RLt(R(45), k.body_rotation) /\ RLt(k.weight_shift, R(3))
            /\ k.downswing_len < k.backlift_len
    THEN Label("CUT", Rat(75, 100))
    ELSE IF RLt(R(60), k.body_rotation)
    THEN Label("SWEEP", Rat(70, 100))
    ELSE IF RLt(Rat(12, 10), k.backlift_height) /\ RLt(R(30), k.body_rotation)
    THEN Label("LOFTED", Rat(70, 100))
    ELSE Label("FORWARD SHOT", Rat(60, 100))

\* Lines 23-85; nothing in lines 29-82 raises on the phase data of a run, so
\* the handler of line 84 is never entered
detect_shot_type(pd) == ClassifyShot(ShotFeatures(pd))

-----------------------------------------------------------------------------
(* analysis.py: analyze_cricket_shot *)

FOLLOW_THROUGH_BUFFER == 30

Phases == <<"STANCE", "BACKLIFT", "DOWNSWING", "FOLLOW_THROUGH">>

EmptySeries ==
    [knee_angles |-> <<>>, leg_directions |-> <<>>, head_directions |-> <<>>,
     body_directions |-> <<>>, weight_transfers |-> <<>>]

EmptyPhaseData ==
    [p \in {"STANCE", "BACKLIFT", "DOWNSWING", "FOLLOW_THROUGH"} |->
        IF p = "DOWNSWING"
        THEN [knee_angles |-> <<>>, leg_directions |-> <<>>, head_directions |-> <<>>,
              body_directions |-> <<>>, weight_transfers |-> <<>>, elbow_angles |-> <<>>]
        ELSE EmptySeries]

EmptyDict == <<>>

\* No frame has been read / results.pose_landmarks is None
NoFrame == [detected |-> FALSE]

\* A frame on which cv2.cvtColor or pose.process raises
BadFrame == [detected |-> FALSE, raised |-> TRUE]

\* A frame on which pose detection succeeded.  wrist_x, wrist_y: left wrist;
\* nose_y: nose; shoulder_x: right shoulder (coordinates in hundredths of the
\* image size, y growing downwards); the rest are the values that
\* calculate_angle / calculate_vector_angle / the weight transfer formula
\* return for the frame's landmarks.
Detected(wx, wy, ny, sx, knee, leg, body, head, wt, elbow) ==
    [detected |-> TRUE, wrist_x |-> wx, wrist_y |-> wy, nose_y |-> ny, shoulder_x |-> sx,
     left_knee_angle |-> R(knee), front_leg_direction |-> R(leg),
     body_direction |-> R(body), head_direction |-> R(head),
     weight_transfer |-> Rat(wt, 100), elbow_angle |-> R(elbow)]

\* Lines 138-141: the phase after the frame's transition checks
Stage1(s) == IF s = "UNKNOWN" THEN "STANCE" ELSE s
\* Mutant: the backlift check without its guard on the current phase
Stage2_unguarded(s, f) ==
    IF f.wrist_y * 10 < f.nose_y * 11 THEN "BACKLIFT" ELSE s

Stage2(s, f) ==
    IF s \in {"STANCE", "BACKLIFT"} /\ f.wrist_y * 10 < f.nose_y * 11
    THEN "BACKLIFT" ELSE s
Stage3(s, f) ==
    IF s = "BACKLIFT" /\ f.wrist_y * 10 > f.nose_y * 9 THEN "DOWNSWING" ELSE s
Stage4(s, f) ==
    IF s = "DOWNSWING" /\ f.wrist_x > f.shoulder_x THEN "FOLLOW_THROUGH" ELSE s

\* Mutant: at most one transition per frame
NextStage_single(s, f) ==
    IF s = "UNKNOWN" THEN "STANCE"
    ELSE IF Stage2(s, f) # s THEN Stage2(s, f)
    ELSE IF Stage3(s, f) # s THEN Stage3(s, f)
    ELSE Stage4(s, f)

NextStage(s, f) == Stage4(Stage3(Stage2(Stage1(s), f), f), f)

\* Mutant: the elbow angle of a DOWNSWING frame is not stored
AppendSample_no_elbow(pd, s, f) ==
    IF s \in DOMAIN pd
    THEN [pd EXCEPT ![s] =
            [@ EXCEPT !.knee_angles = Append(@, f.left_knee_angle),
                      !.leg_directions = Append(@, f.front_leg_direction),
                      !.body_directions = Append(@, f.body_direction),
                      !.head_directions = Append(@, f.head_direction),
                      !.weight_transfers = Append(@, f.weight_transfer)]]
    ELSE pd

\* Mutant: the body direction is stored at the front of its series
AppendSample_body_first(pd, s, f) ==
    IF s \in DOMAIN pd
    THEN [pd EXCEPT ![s] =
            LET cur == pd[s]
                base == [cur EXCEPT
                            !.knee_angles = Append(@, f.left_knee_angle),
                            !.leg_directions = Append(@, f.front_leg_direction),
                            !.body_directions = <<f.body_direction>> \o @,
                            !.head_directions = Append(@, f.head_direction),
                            !.weight_transfers = Append(@, f.weight_transfer)]
            IN  IF s = "DOWNSWING"
                THEN [base EXCEPT !.elbow_angles = Append(@, f.elbow_angle)]
                ELSE base]
    ELSE pd

\* Lines 156-165: the frame's sample appended to the series of phase s
AppendSample(pd, s, f) ==
    IF s \in DOMAIN pd
    THEN [pd EXCEPT ![s] =
            LET cur == pd[s]
                base == [cur EXCEPT
                            !.knee_angles = Append(@, f.left_knee_angle),
                            !.leg_directions = Append(@, f.front_leg_direction),
                            !.body_directions = Append(@, f.body_direction),
                            !.head_directions = Append(@, f.head_direction),
                            !.weight_transfers = Append(@, f.weight_transfer)]
            IN  IF s = "DOWNSWING"
                THEN [base EXCEPT !.elbow_angles = Append(@, f.elbow_angle)]
                ELSE base]
    ELSE pd

\* Mutant: the first sample of the list instead of the last
get_last_first(data) == IF data # <<>> THEN data[1] ELSE R(0)

\* Lines 191-192
get_avg(data) == IF data # <<>> THEN NpMean(data) ELSE R(0)
get_last(data) == IF data # <<>> THEN data[Len(data)] ELSE R(0)

\* Lines 189-222: the final metrics of a run
FinalMetrics(pd) ==
    LET stance_body_direction == get_avg(pd["STANCE"].body_directions)
        impact_body_direction == get_last(pd["DOWNSWING"].body_directions)
        initial_weight == get_avg(pd["STANCE"].weight_transfers)
        impact_weight == get_last(pd["DOWNSWING"].weight_transfers)
        stance_knee_angle == get_avg(pd["STANCE"].knee_angles)
        downswing_knee_angle == get_avg(pd["DOWNSWING"].knee_angles)
        stance_head_direction == get_avg(pd["STANCE"].head_directions)
        downswing_head_direction == get_avg(pd["DOWNSWING"].head_directions)
        shot == detect_shot_type(pd)
    IN  [stance_body_direction |-> stance_body_direction,
         impact_body_direction |-> impact_body_direction,
         body_rotation_over_time |->
             pd["STANCE"].body_directions \o pd["BACKLIFT"].body_directions
             \o pd["DOWNSWING"].body_directions \o pd["FOLLOW_THROUGH"].body_directions,
         stance_leg_direction |-> get_avg(pd["STANCE"].leg_directions),
         impact_leg_direction |-> get_last(pd["DOWNSWING"].leg_directions),
         weight_transfer_amount |-> RMul(RSub(impact_weight, initial_weight), R(100)),
         max_elbow_angle |->
             IF pd["DOWNSWING"].elbow_angles # <<>>
             THEN MaxSeq(pd["DOWNSWING"].elbow_angles) ELSE R(0),
         stance_knee_angle |-> stance_knee_angle,
         downswing_knee_angle |-> downswing_knee_angle,
         stance_head_direction |-> stance_head_direction,
         downswing_head_direction |-> downswing_head_direction,
         shot_type |-> shot.shot_type,
         shot_confidence |-> shot.confidence,
         body_rotation_total |-> RAbs(RSub(stance_body_direction, impact_body_direction)),
         head_movement |-> RAbs(RSub(stance_head_direction, downswing_head_direction)),
         knee_bracing |-> RSub(downswing_knee_angle, stance_knee_angle)]

-----------------------------------------------------------------------------
(* The videos of the model *)

MaxRich == 3    \* the first MaxRich detected frames of a video are arbitrary
MaxFail == 1    \* frames of a video on which detection fails

Lift    == Detected(40, 20, 30, 50, 150, 85, 20, 95, 1, 90)
Mid     == Detected(40, 30, 30, 50, 155, 82, 30, 92, 4, 140)
Swing   == Detected(40, 60, 30, 50, 170, 75, 40, 85, 10, 165)
Cascade == Detected(60, 30, 30, 50, 165, 78, 65, 88, -3, 150)
Through == Detected(60, 60, 30, 50, 175, 70, 70, 80, 12, 175)

FrameKinds == {Lift, Mid, Swing, Cascade, Through}

\* Detected frames after the first MaxRich ones: follow-through frames
TailFrame == Through

TotalSamples(pd) ==
    Len(pd["STANCE"].knee_angles) + Len(pd["BACKLIFT"].knee_angles)
    + Len(pd["DOWNSWING"].knee_angles) + Len(pd["FOLLOW_THROUGH"].knee_angles)

Preview  == [image |-> TRUE, metrics |-> FALSE]
Terminal == [image |-> FALSE, metrics |-> TRUE]

-----------------------------------------------------------------------------
(* The generator analyze_cricket_shot, one action per run of its body
   between two suspensions *)

RunInit ==
    /\ pc = "start"
    /\ capOpened = FALSE
    /\ capReleased = FALSE
    /\ stage = "UNKNOWN"
    /\ follow_through_frames = 0
    /\ phase_data = EmptyPhaseData
    /\ frame = NoFrame
    /\ yielded = <<>>
    /\ final_metrics = EmptyDict
    /\ frames_read = 0
    /\ ft_first = 0

\* No pure function is under check
NoArgs == [fn |-> "none"]
NoRet  == [called |-> FALSE]
Returned(v) == [called |-> TRUE, value |-> v]

\* The globals as they are when no key is configured; analysis.py and
\* ImprovementEngine read none of them
ModuleInit == OPENAI_API_KEY = "" /\ openai_client = "None" /\ random_state = 0

Idle == args = NoArgs /\ ret = NoRet /\ ModuleInit

Init == RunInit /\ Idle

\* Lines 89-104: the video is opened; a video that cannot be opened ends the
\* generator at once (line 92)
Open(ok) ==
    /\ pc = "start"
    /\ capOpened' = ok
    /\ pc' = IF ok THEN "loop" ELSE "done"
    /\ UNCHANGED <<capReleased, stage, follow_through_frames, phase_data, frame,
                   yielded, final_metrics, frames_read, ft_first, args, ret, moduleVars>>

\* Mutant: the frame that reaches FOLLOW_THROUGH is not counted itself
ReadDetected_first_uncounted(f) ==
    /\ pc = "loop"
    /\ \/ TotalSamples(phase_data) < MaxRich
       \/ stage = "FOLLOW_THROUGH" /\ f = TailFrame
    /\ LET s == NextStage(stage, f)
       IN  /\ stage' = s
           /\ phase_data' = AppendSample(phase_data, s, f)
           /\ follow_through_frames' =
                 IF stage = "FOLLOW_THROUGH" THEN follow_through_frames + 1
                 ELSE follow_through_frames
           /\ ft_first' = IF s = "FOLLOW_THROUGH" /\ stage # "FOLLOW_THROUGH"
                          THEN frames_read + 1 ELSE ft_first
    /\ frame' = f
    /\ frames_read' = frames_read + 1
    /\ yielded' = Append(yielded, Preview)
    /\ pc' = "yield"
    /\ UNCHANGED <<capOpened, capReleased, final_metrics, args, ret, moduleVars>>

\* Lines 108-179 for a frame with landmarks
ReadDetected(f) ==
    /\ pc = "loop"
    /\ \/ TotalSamples(phase_data) < MaxRich
       \/ stage = "FOLLOW_THROUGH" /\ f = TailFrame
    /\ LET s == NextStage(stage, f)
       IN  /\ stage' = s
           /\ phase_data' = AppendSample(phase_data, s, f)
           /\ follow_through_frames' =
                 IF s = "FOLLOW_THROUGH" THEN follow_through_frames + 1
                 ELSE follow_through_frames
           /\ ft_first' = IF s = "FOLLOW_THROUGH" /\ stage # "FOLLOW_THROUGH"
                          THEN frames_read + 1 ELSE ft_first
    /\ frame' = f
    /\ frames_read' = frames_read + 1
    /\ yielded' = Append(yielded, Preview)
    /\ pc' = "yield"
    /\ UNCHANGED <<capOpened, capReleased, final_metrics, args, ret, moduleVars>>

\* Mutant: the phase is resolved before the landmarks are looked up
ReadUndetected_resolves ==
    /\ pc = "loop"
    /\ frames_read - TotalSamples(phase_data) < MaxFail
    /\ frame' = NoFrame
    /\ frames_read' = frames_read + 1
    /\ stage' = Stage1(stage)
    /\ yielded' = Append(yielded, Preview)
    /\ pc' = "yield"
    /\ UNCHANGED <<capOpened, capReleased, follow_through_frames, phase_data,
                   final_metrics, ft_first, args, ret, moduleVars>>

\* Lines 108-179 for a frame without landmarks: line 117 raises, line 176
\* swallows the error
ReadUndetected ==
    /\ pc = "loop"
    /\ frames_read - TotalSamples(phase_data) < MaxFail
    /\ frame' = NoFrame
    /\ frames_read' = frames_read + 1
    /\ yielded' = Append(yielded, Preview)
    /\ pc' = "yield"
    /\ UNCHANGED <<capOpened, capReleased, stage, follow_through_frames, phase_data,
                   final_metrics, ft_first, args, ret, moduleVars>>

\* Lines 185-224: the video is released, the final metrics are computed and
\* the terminal pair is yielded
Finish ==
    /\ capReleased' = TRUE
    /\ final_metrics' = FinalMetrics(phase_data)
    /\ yielded' = Append(yielded, Terminal)
    /\ pc' = "yield_final"
    /\ UNCHANGED <<capOpened, stage, follow_through_frames, phase_data, frame,
                   frames_read, ft_first, args, ret, moduleVars>>

\* Mutant: the end of the video returns from the generator instead of
\* leaving the loop
ReadEnd_returns ==
    /\ pc = "loop"
    /\ pc' = "done"
    /\ UNCHANGED <<capOpened, capReleased, stage, follow_through_frames, phase_data,
                   frame, yielded, final_metrics, frames_read, ft_first, args, ret, moduleVars>>

\* Lines 108-110: cap.read() reports the end of the video
ReadEnd ==
    /\ pc = "loop"
    /\ Finish

\* Lines 112-114: the colour conversion or the pose estimator raises outside
\* the try block; the exception leaves the generator
ProcessRaises ==
    /\ pc = "loop"
    /\ frame' = BadFrame
    /\ frames_read' = frames_read + 1
    /\ pc' = "raised"
    /\ UNCHANGED <<capOpened, capReleased, stage, follow_through_frames, phase_data,
                   yielded, final_metrics, ft_first, args, ret, moduleVars>>

\* Mutant: the buffer test with > for >=
BufferFull_gt ==
    stage = "FOLLOW_THROUGH" /\ follow_through_frames > FOLLOW_THROUGH_BUFFER

\* Line 182: enough follow-through frames have been captured
BufferFull ==
    stage = "FOLLOW_THROUGH" /\ follow_through_frames >= FOLLOW_THROUGH_BUFFER

\* Lines 179-183, 107: the consumer asks for the next pair, the buffer is not full
ResumeContinue ==
    /\ pc = "yield"
    /\ ~BufferFull
    /\ pc' = "loop"
    /\ UNCHANGED <<capOpened, capReleased, stage, follow_through_frames, phase_data,
                   frame, yielded, final_metrics, frames_read, ft_first, args, ret, moduleVars>>

\* Lines 179-183: the consumer asks for the next pair, the buffer is full
ResumeStop ==
    /\ pc = "yield"
    /\ BufferFull
    /\ Finish

\* Line 224: the consumer asks for a pair after the terminal one
ResumeFinal ==
    /\ pc = "yield_final"
    /\ pc' = "done"
    /\ UNCHANGED <<capOpened, capReleased, stage, follow_through_frames, phase_data,
                   frame, yielded, final_metrics, frames_read, ft_first, args, ret, moduleVars>>

\* The consumer closes the suspended generator: GeneratorExit is raised at
\* the yield (line 179 or 224) and unwinds the generator
Close ==
    /\ pc \in {"yield", "yield_final"}
    /\ pc' = "closed"
    /\ UNCHANGED <<capOpened, capReleased, stage, follow_through_frames, phase_data,
                   frame, yielded, final_metrics, frames_read, ft_first, args, ret, moduleVars>>

Next ==
    \/ \E ok \in BOOLEAN : Open(ok)
    \/ \E f \in FrameKinds : ReadDetected(f)
    \/ ReadUndetected
    \/ ReadEnd
    \/ ProcessRaises
    \/ ResumeContinue
    \/ ResumeStop
    \/ ResumeFinal
    \/ Close

Spec == Init /\ [][Next]_vars

-----------------------------------------------------------------------------
(* Properties of a run of analyze_cricket_shot *)

PhaseRank(s) ==
    CASE s = "UNKNOWN" -> 0
      [] s = "STANCE" -> 1
      [] s = "BACKLIFT" -> 2
      [] s = "DOWNSWING" -> 3
      [] s = "FOLLOW_THROUGH" -> 4

Series(p) == phase_data[p].knee_angles

\* C1: during a run the phase never moves backwards in the order
\* STANCE < BACKLIFT < DOWNSWING < FOLLOW_THROUGH, and once it is
\* FOLLOW_THROUGH it never changes again.
C1_PhaseMonotone ==
    [][/\ PhaseRank(stage) <= PhaseRank(stage')
       /\ stage = "FOLLOW_THROUGH" => stage' = "FOLLOW_THROUGH"]_vars

\* A run that went through STANCE and BACKLIFT, reached FOLLOW_THROUGH and
\* processed further frames, detected and undetected, after that
C1_Witness ==
    /\ stage = "FOLLOW_THROUGH"
    /\ Series("STANCE") # <<>>
    /\ Series("BACKLIFT") # <<>>
    /\ follow_through_frames >= 3
    /\ frames_read > TotalSamples(phase_data)

\* C2: a fully drained run has yielded zero or more (preview, None) pairs
\* followed by exactly one terminal (None, metrics) pair, whatever the input.
C2_OneTerminalPair ==
    pc = "done" =>
        /\ yielded # <<>>
        /\ yielded[Len(yielded)] = Terminal
        /\ \A i \in 1..(Len(yielded) - 1) : yielded[i] = Preview

\* C2 amended: a fully drained run over a video that could be opened has
\* yielded one preview pair per frame read, followed by exactly one terminal
\* pair and nothing after it; a run over a source that cannot be opened
\* yields nothing at all.
C2_OneTerminalPairIfOpened ==
    /\ pc \in {"yield_final", "done"} /\ capOpened =>
            /\ Len(yielded) = frames_read + 1
            /\ yielded[Len(yielded)] = Terminal
            /\ \A i \in 1..frames_read : yielded[i] = Preview
    /\ pc \in {"start", "loop", "yield", "raised"} =>
            \A i \in 1..Len(yielded) : yielded[i] = Preview
    /\ ~capOpened => yielded = <<>>

\* A drained run over a video with detected and undetected frames
C2_Witness ==
    /\ pc = "done"
    /\ capOpened
    /\ TotalSamples(phase_data) >= 2
    /\ frames_read > TotalSamples(phase_data)

ScalarKeys ==
    {"stance_body_direction", "impact_body_direction", "stance_leg_direction",
     "impact_leg_direction", "weight_transfer_amount", "max_elbow_angle",
     "stance_knee_angle", "downswing_knee_angle", "stance_head_direction",
     "downswing_head_direction", "body_rotation_total", "head_movement", "knee_bracing"}

\* C3: a run over an empty video, or over a video on which detection always
\* fails, ends with a record whose scalars are all 0 and whose category is
\* UNKNOWN with confidence 0.0.
C3_EmptyRunIsUnknown ==
    (pc \in {"yield_final", "done"} /\ capOpened /\ TotalSamples(phase_data) = 0) =>
        /\ ScalarKeys \subseteq DOMAIN final_metrics
        /\ \A k \in ScalarKeys : final_metrics[k] = R(0)
        /\ final_metrics["shot_type"] = "UNKNOWN"
        /\ final_metrics["shot_confidence"] = R(0)

\* C4: the video opened by the run has been released whenever the run has
\* ended: by exhaustion or a full buffer, by an error, or by the consumer
\* closing the generator.
C4_VideoReleased ==
    (pc \in {"done", "closed", "raised"} /\ capOpened) => capReleased

\* C5: a frame without landmarks leaves the phase (UNKNOWN included), the
\* four phase accumulators and the follow-through counter as they are, and
\* the run goes on: the frame's preview is yielded.
C5_UndetectedSkipped ==
    [][(frames_read' = frames_read + 1 /\ frame' = NoFrame) =>
            /\ stage' = stage
            /\ phase_data' = phase_data
            /\ follow_through_frames' = follow_through_frames
            /\ pc' = "yield"
            /\ yielded' = Append(yielded, Preview)]_vars

\* The first frame of a video has no landmarks and the next one is read
C5_Witness ==
    /\ frame = NoFrame
    /\ frames_read = 1
    /\ stage = "UNKNOWN"
    /\ pc = "loop"

\* C6 as stated: when the run stops on a full buffer, exactly 30 frames have
\* been read after the frame that first reached FOLLOW_THROUGH.
C6_ThirtyFramesAfter ==
    (pc \in {"yield_final", "done"} /\ follow_through_frames >= FOLLOW_THROUGH_BUFFER) =>
        frames_read - ft_first = FOLLOW_THROUGH_BUFFER

\* C6 amended: the detected frames are counted from the frame that first
\* reaches FOLLOW_THROUGH on, that frame included; the run stops on the
\* first resumption after the count reaches 30, or when the input ends; so
\* a run stopped by the count has processed 30 detected FOLLOW_THROUGH frames,
\* at least 29 frames after the first of them, and reads no frame afterwards.
C6_StopAfterBuffer ==
    [][/\ frames_read' # frames_read =>
              (pc = "loop" /\ follow_through_frames < FOLLOW_THROUGH_BUFFER)
       /\ (pc = "yield" /\ pc' # "closed") =>
              (pc' = "yield_final" <=> follow_through_frames = FOLLOW_THROUGH_BUFFER)
       /\ follow_through_frames' = FOLLOW_THROUGH_BUFFER =>
              /\ Len(phase_data'["FOLLOW_THROUGH"].knee_angles) = FOLLOW_THROUGH_BUFFER
              /\ frames_read' - ft_first' >= FOLLOW_THROUGH_BUFFER - 1
       /\ pc \in {"yield_final", "done"} => frames_read' = frames_read]_vars

\* A run stopped by the full buffer, all of whose frames since the first
\* FOLLOW_THROUGH frame were detected: 29 frames were read after that frame
C6_Witness ==
    /\ pc = "yield_final"
    /\ follow_through_frames = FOLLOW_THROUGH_BUFFER
    /\ frames_read - ft_first = FOLLOW_THROUGH_BUFFER - 1

-----------------------------------------------------------------------------
(* detect_shot_type on its own, over phase data of bounded length *)

MaxLen == 3     \* samples per phase

StanceBody == <<2, 6, 4, 8>>     \* body_direction of the i-th STANCE sample
StanceWeight == <<1, 3, 2, 2>>   \* weight_transfer of the i-th STANCE sample, in hundredths

ImpactBodies == {0, 12, 19, 20, 36, 49, 51, 54, 58, 64, 70}
ImpactWeights == {-4, 1, 4, 5, 6, 7, 8, 12}

SampleFrame(body, wt) == Detected(40, 60, 30, 50, 160, 80, body, 90, wt, 150)

RECURSIVE FillStance(_, _)
FillStance(pd, n) ==
    IF n = 0 THEN pd
    ELSE AppendSample(FillStance(pd, n - 1), "STANCE",
                      SampleFrame(StanceBody[((n - 1) % 4) + 1], StanceWeight[((n - 1) % 4) + 1]))

RECURSIVE Fill(_, _, _, _)
Fill(pd, p, n, f) == IF n = 0 THEN pd ELSE Fill(AppendSample(pd, p, f), p, n - 1, f)

PhaseDataOf(ns, nb, nd, body, wt) ==
    LET a == FillStance(EmptyPhaseData, ns)
        b == Fill(a, "BACKLIFT", nb, Lift)
        c == Fill(b, "DOWNSWING", nd - 1, Swing)
    IN  IF nd = 0 THEN b ELSE AppendSample(c, "DOWNSWING", SampleFrame(body, wt))

ClassifyInputs ==
    {PhaseDataOf(ns, nb, nd, body, wt) :
        ns \in 0..MaxLen, nb \in 0..MaxLen, nd \in 0..MaxLen,
        body \in ImpactBodies, wt \in ImpactWeights}

ClassifyInit ==
    /\ RunInit
    /\ ModuleInit
    /\ args \in {[fn |-> "detect_shot_type", phase_data |-> pd] : pd \in ClassifyInputs}
    /\ ret = NoRet

CallDetectShotType ==
    /\ args.fn = "detect_shot_type"
    /\ ~ret.called
    /\ ret' = Returned(detect_shot_type(args.phase_data))
    /\ UNCHANGED <<runVars, args, moduleVars>>

SpecClassify == ClassifyInit /\ [][CallDetectShotType]_vars

\* The rules of the cascade in their order, each with its predicate on the
\* five indicators
CascadeRules(k) ==
    << [holds |-> /\ RLt(k.body_rotation, R(15))
                  /\ RLt(RAbs(k.weight_shift), R(5))
                  /\ RLt(k.backlift_height, Rat(1, 2)),
        out |-> Label("DEFENSIVE", Rat(85, 100))],
       [holds |-> /\ RLt(R(5), k.weight_shift)
                  /\ RLe(R(15), k.body_rotation) /\ RLe(k.body_rotation, R(45)),
        out |-> Label("DRIVE", Rat(80, 100))],
       [holds |-> RLt(R(50), k.body_rotation) /\ RLt(k.weight_shift, R(5)),
        out |-> Label("PULL/HOOK", Rat(75, 100))],
       [holds |-> /\ RLt(R(45), k.body_rotation) /\ RLt(k.weight_shift, R(3))
                  /\ k.downswing_len < k.backlift_len,
        out |-> Label("CUT", Rat(75, 100))],
       [holds |-> RLt(R(60), k.body_rotation),
        out |-> Label("SWEEP", Rat(70, 100))],
       [holds |-> RLt(Rat(12, 10), k.backlift_height) /\ RLt(R(30), k.body_rotation),
        out |-> Label("LOFTED", Rat(70, 100))],
       [holds |-> TRUE,
        out |-> Label("FORWARD SHOT", Rat(60, 100))] >>

FirstMatch(rules) ==
    rules[CHOOSE i \in 1..Len(rules) :
            rules[i].holds /\ \A j \in 1..(i - 1) : ~rules[j].holds].out

\* C7: detect_shot_type returns the outcome of the first rule of the cascade
\* DEFENSIVE, DRIVE, PULL/HOOK, CUT, SWEEP, LOFTED, FORWARD SHOT whose
\* predicate holds on the indicators; DEFENSIVE/0.85 whenever rule 1 holds;
\* UNKNOWN is not returned as long as the indicator computation does not raise.
C7_FirstMatchWins ==
    ret.called =>
        LET rules == CascadeRules(ShotFeatures(args.phase_data))
        IN  /\ ret.value = FirstMatch(rules)
            /\ rules[1].holds => ret.value = Label("DEFENSIVE", Rat(85, 100))
            /\ ret.value.shot_type # "UNKNOWN"

\* PULL/HOOK is returned although the later SWEEP rule holds as well
C7_Witness ==
    /\ ret.called
    /\ ret.value.shot_type = "PULL/HOOK"
    /\ CascadeRules(ShotFeatures(args.phase_data))[5].holds

-----------------------------------------------------------------------------
(* advice_engine.py: ImprovementEngine *)

\* Lines 751-794: self.optimal_ranges
optimal_ranges ==
    [t \in {"DRIVE", "PULL/HOOK", "CUT", "DEFENSIVE", "SWEEP", "LOFTED", "FORWARD SHOT"} |->
        CASE t = "DRIVE" ->
                [max_elbow_angle |-> <<165, 180>>, weight_transfer_amount |-> <<8, 20>>,
                 body_rotation_total |-> <<20, 45>>, head_movement |-> <<0, 10>>]
          [] t = "PULL/HOOK" ->
                [max_elbow_angle |-> <<150, 180>>, weight_transfer_amount |-> <<-5, 2>>,
                 body_rotation_total |-> <<45, 75>>, head_movement |-> <<0, 12>>]
          [] t = "CUT" ->
                [max_elbow_angle |-> <<150, 180>>, weight_transfer_amount |-> <<-3, 5>>,
                 body_rotation_total |-> <<45, 70>>, head_movement |-> <<0, 12>>]
          [] t = "DEFENSIVE" ->
                [max_elbow_angle |-> <<160, 180>>, weight_transfer_amount |-> <<0, 5>>,
                 body_rotation_total |-> <<0, 15>>, head_movement |-> <<0, 8>>]
          [] t = "SWEEP" ->
                [max_elbow_angle |-> <<140, 170>>, weight_transfer_amount |-> <<3, 15>>,
                 body_rotation_total |-> <<50, 80>>, head_movement |-> <<0, 15>>]
          [] t = "LOFTED" ->
                [max_elbow_angle |-> <<155, 180>>, weight_transfer_amount |-> <<5, 20>>,
                 body_rotation_total |-> <<25, 55>>, head_movement |-> <<0, 12>>]
          [] t = "FORWARD SHOT" ->
                [max_elbow_angle |-> <<160, 180>>, weight_transfer_amount |-> <<5, 15>>,
                 body_rotation_total |-> <<15, 40>>, head_movement |-> <<0, 10>>]]

\* Lines 797-802: self.default_optimal
default_optimal ==
    [max_elbow_angle |-> <<155, 180>>, weight_transfer_amount |-> <<3, 15>>,
     body_rotation_total |-> <<20, 50>>, head_movement |-> <<0, 12>>]

\* Lines 805-810: self.metric_info (name and unit)
metric_info ==
    [max_elbow_angle |-> [name |-> "Elbow Extension", unit |-> "deg"],
     weight_transfer_amount |-> [name |-> "Weight Transfer", unit |-> "%"],
     body_rotation_total |-> [name |-> "Body Rotation", unit |-> "deg"],
     head_movement |-> [name |-> "Head Stability", unit |-> "deg"]]

\* dict.get(key, default)
DictGet(d, key, default) == IF key \in DOMAIN d THEN d[key] ELSE default

\* Lines 812-815
_get_optimal_range(metric, shot_type) ==
    LET shot_ranges == DictGet(optimal_ranges, shot_type, default_optimal)
    IN  DictGet(shot_ranges, metric, DictGet(default_optimal, metric, <<0, 100>>))

\* Mutant: the penalty outside the range capped at 60 points
_calculate_metric_score_cap60(value, optimal_range) ==
    LET opt_min == R(optimal_range[1])
        opt_max == R(optimal_range[2])
        opt_mid == RDiv(RAdd(opt_min, opt_max), R(2))
    IN  IF RLe(opt_min, value) /\ RLe(value, opt_max)
        THEN LET distance_from_mid == RAbs(RSub(value, opt_mid))
                 range_half == RDiv(RSub(opt_max, opt_min), R(2))
             IN  IF RLt(R(0), range_half)
                 THEN RSub(R(100), RMul(RDiv(distance_from_mid, range_half), R(20)))
                 ELSE R(100)
        ELSE IF RLt(value, opt_min)
        THEN LET distance == RSub(opt_min, value)
                 penalty == RMin(RMul(distance, R(2)), R(60))
             IN  RMax(RSub(R(80), penalty), R(20))
        ELSE LET distance == RSub(value, opt_max)
                 penalty == RMin(RMul(distance, R(2)), R(60))
             IN  RMax(RSub(R(80), penalty), R(20))

\* Mutant: the penalty above the range not doubled
_calculate_metric_score_single(value, optimal_range) ==
    LET opt_min == R(optimal_range[1])
        opt_max == R(optimal_range[2])
        opt_mid == RDiv(RAdd(opt_min, opt_max), R(2))
    IN  IF RLe(opt_min, value) /\ RLe(value, opt_max)
        THEN LET distance_from_mid == RAbs(RSub(value, opt_mid))
                 range_half == RDiv(RSub(opt_max, opt_min), R(2))
             IN  IF RLt(R(0), range_half)
                 THEN RSub(R(100), RMul(RDiv(distance_from_mid, range_half), R(20)))
                 ELSE R(100)
        ELSE IF RLt(value, opt_min)
        THEN LET distance == RSub(opt_min, value)
                 penalty == RMin(RMul(distance, R(2)), R(50))
             IN  RMax(RSub(R(80), penalty), R(20))
        ELSE LET distance == RSub(value, opt_max)
                 penalty == RMin(distance, R(50))
             IN  RMax(RSub(R(80), penalty), R(20))

\* Lines 817-842
_calculate_metric_score(value, optimal_range) ==
    LET opt_min == R(optimal_range[1])
        opt_max == R(optimal_range[2])
        opt_mid == RDiv(RAdd(opt_min, opt_max), R(2))
    IN  IF RLe(opt_min, value) /\ RLe(value, opt_max)
        THEN LET distance_from_mid == RAbs(RSub(value, opt_mid))
                 range_half == RDiv(RSub(opt_max, opt_min), R(2))
             IN  IF RLt(R(0), range_half)
                 THEN RSub(R(100), RMul(RDiv(distance_from_mid, range_half), R(20)))
                 ELSE R(100)
        ELSE IF RLt(value, opt_min)
        THEN LET distance == RSub(opt_min, value)
                 penalty == RMin(RMul(distance, R(2)), R(50))
             IN  RMax(RSub(R(80), penalty), R(20))
        ELSE LET distance == RSub(value, opt_max)
                 penalty == RMin(RMul(distance, R(2)), R(50))
             IN  RMax(RSub(R(80), penalty), R(20))

\* round(x, 1) of a float that is not negative: to the nearest tenth, an
\* exact tie to the even tenth
Round1(x) ==
    LET f == (10 * x.n) \div x.d
        r == 10 * x.n - f * x.d
    IN  IF 2 * r > x.d \/ (2 * r = x.d /\ f % 2 = 1)
        THEN Rat(f + 1, 10) ELSE Rat(f, 10)

\* Mutant: a score change of exactly 5 counted as a change
_calculate_improvement_delta_ge(original, followup, optimal_range, metric, shot_type) ==
    LET original_score == _calculate_metric_score(original, optimal_range)
        followup_score == _calculate_metric_score(followup, optimal_range)
        score_change == RSub(followup_score, original_score)
    IN  [original_value |-> original,
         followup_value |-> followup,
         original_score |-> original_score,
         followup_score |-> followup_score,
         score_change |-> score_change,
         status |-> IF RLe(R(5), score_change) THEN "improved"
                    ELSE IF RLe(score_change, R(-5)) THEN "regressed"
                    ELSE "maintained",
         optimal_range |-> optimal_range]

\* Lines 844-881
_calculate_improvement_delta(original, followup, optimal_range, metric, shot_type) ==
    LET original_score == _calculate_metric_score(original, optimal_range)
        followup_score == _calculate_metric_score(followup, optimal_range)
        score_change == RSub(followup_score, original_score)
    IN  [original_value |-> original,
         followup_value |-> followup,
         original_score |-> original_score,
         followup_score |-> followup_score,
         score_change |-> score_change,
         status |-> IF RLt(R(5), score_change) THEN "improved"
                    ELSE IF RLt(score_change, R(-5)) THEN "regressed"
                    ELSE "maintained",
         optimal_range |-> optimal_range]

\* Lines 892-893
comparison_metrics ==
    <<"max_elbow_angle", "weight_transfer_amount", "body_rotation_total", "head_movement">>

\* The keys in a list of metric names
MetricKeysOf(names) == {names[i] : i \in 1..Len(names)}

\* Lines 989-1000
_calculate_overall_accuracy(metrics, shot_type) ==
    LET present == SelectSeq(comparison_metrics, LAMBDA m : m \in DOMAIN metrics)
        scores == [i \in 1..Len(present) |->
                      _calculate_metric_score(metrics[present[i]],
                                              _get_optimal_range(present[i], shot_type))]
    IN  Round1(RDiv(SumSeq(scores), R(MaxInt(Len(scores), 1))))

\* Lines 903-904: the metrics compared, in the order of comparison_metrics
AnalyzedMetrics(original_metrics, followup_metrics) ==
    SelectSeq(comparison_metrics,
              LAMBDA m : m \in DOMAIN original_metrics /\ m \in DOMAIN followup_metrics)

\* Lines 905-916: metric_comparisons
MetricComparisons(original_metrics, followup_metrics, shot_type) ==
    [m \in {k \in MetricKeysOf(comparison_metrics) :
                k \in DOMAIN original_metrics /\ k \in DOMAIN followup_metrics} |->
        _calculate_improvement_delta(original_metrics[m], followup_metrics[m],
            _get_optimal_range(m, shot_type), m, shot_type)]

\* Lines 923-947: the entry filed for a metric
AreaEntry(original_metrics, followup_metrics, comparison, m) ==
    IF comparison.status = "maintained"
    THEN [metric |-> m, name |-> metric_info[m].name,
          from_value |-> original_metrics[m], to_value |-> followup_metrics[m],
          unit |-> metric_info[m].unit]
    ELSE [metric |-> m, name |-> metric_info[m].name,
          change |-> comparison.score_change,
          from_value |-> original_metrics[m], to_value |-> followup_metrics[m],
          unit |-> metric_info[m].unit]

\* Lines 920-947: the list of the entries of the metrics with status st
AreasWithStatus(original_metrics, followup_metrics, comparisons, st) ==
    LET ms == SelectSeq(AnalyzedMetrics(original_metrics, followup_metrics),
                        LAMBDA m : comparisons[m].status = st)
    IN  [i \in 1..Len(ms) |->
            AreaEntry(original_metrics, followup_metrics, comparisons[ms[i]], ms[i])]

\* Lines 917-918, 950: avg_improvement
AvgImprovement(analyzed, comparisons) ==
    RDiv(SumSeq([i \in 1..Len(analyzed) |-> comparisons[analyzed[i]].score_change]),
         R(MaxInt(Len(analyzed), 1)))

(* The two accuracies are doubles: round(x, 1) returns the double nearest to
   a number of tenths k/10, and lines 957 and 960 add 5 to and subtract 5
   from a double.  A double in [2^E, 2^(E+1)) is a multiple of
   ulp = 2^(E-52).  The operators below work on the number of tenths k and
   on the error of a double against k/10, counted in units of 2^(-56)/10
   (a tenth of the ulp of 0.1), using only remainders of powers of two. *)

RECURSIVE Pow2(_)
Pow2(n) == IF n = 0 THEN 1 ELSE 2 * Pow2(n - 1)

\* 2^n modulo m
RECURSIVE Pow2Mod(_, _)
Pow2Mod(n, m) == IF n = 0 THEN 1 % m ELSE (2 * Pow2Mod(n - 1, m)) % m

\* E + 4 for the E with 2^E <= k/10 < 2^(E+1), k >= 1
RECURSIVE BinadeFrom(_, _)
BinadeFrom(k, e) == IF 10 * Pow2(e + 1) <= 16 * k THEN BinadeFrom(k, e + 1) ELSE e

Binade4(k) == BinadeFrom(k, 0)

\* The remainder of (k/10) / ulp = k * 2^(52-E) / 10
Rem10(k) == (k * Pow2Mod(56 - Binade4(k), 10)) % 10

\* The error of the double nearest to k/10, in tenths of its ulp
FlErr(k) == IF Rem10(k) < 5 THEN -Rem10(k) ELSE 10 - Rem10(k)

\* The same error in units of 2^(-56)/10
FlEps(k) == IF k = 0 THEN 0 ELSE FlErr(k) * Pow2(Binade4(k))

\* The error of the double fl(fl(k/10) + 5) against (k+50)/10: the sum is
\* exact unless it falls in a higher binade, where it is rounded to a
\* multiple of the larger ulp, a tie to the even multiple
SumEps(k) ==
    IF k = 0 THEN 0
    ELSE LET e == Binade4(k)
             d == Binade4(k + 50) - e
             P == Pow2(d + 1)
             N == ((k % (10 * P)) * Pow2Mod(56 - e, 10 * P)) % (10 * P)
             mk == ((((N - Rem10(k)) % (10 * P)) \div 10)
                       + (IF Rem10(k) > 5 THEN 1 ELSE 0)) % P
             t == mk % Pow2(d)
             q == (mk \div Pow2(d)) % 2
             half == Pow2(d) \div 2
             delta == IF t < half \/ (t = half /\ q = 0) THEN -t ELSE Pow2(d) - t
         IN  IF d = 0 THEN FlEps(k) ELSE FlEps(k) + 10 * delta * Pow2(e)

\* The number of tenths of an accuracy
Tenths(x) == x.n * (10 \div x.d)

\* Line 957: followup_accuracy > original_accuracy + 5, on doubles
FloatGtPlus5(followup_accuracy, original_accuracy) ==
    LET j == Tenths(followup_accuracy)
        k == Tenths(original_accuracy)
    IN  j > k + 50 \/ (j = k + 50 /\ FlEps(j) > SumEps(k))

\* Line 960: followup_accuracy < original_accuracy - 5, on doubles; the
\* difference is exact when it is not negative
FloatLtMinus5(followup_accuracy, original_accuracy) ==
    LET j == Tenths(followup_accuracy)
        k == Tenths(original_accuracy)
    IN  k >= 50 /\ (j < k - 50 \/ (j = k - 50 /\ FlEps(j) < FlEps(k)))

\* Lines 956-972: overall_verdict
OverallVerdict(original_accuracy, followup_accuracy, n_improved, n_regressed) ==
    IF FloatGtPlus5(followup_accuracy, original_accuracy) THEN "IMPROVED"
    ELSE IF FloatLtMinus5(followup_accuracy, original_accuracy) THEN "REGRESSED"
    ELSE IF n_improved > n_regressed THEN "SLIGHT_IMPROVEMENT"
    ELSE IF n_regressed > n_improved THEN "SLIGHT_REGRESSION"
    ELSE "MAINTAINED"

\* Lines 956-972: verdict_description
VerdictDescription(overall_verdict) ==
    CASE overall_verdict = "IMPROVED" ->
            "Great progress! Your technique has measurably improved."
      [] overall_verdict = "REGRESSED" ->
            "Your follow-up attempt shows some regression. This can happen when trying new techniques - keep practicing."
      [] overall_verdict = "SLIGHT_IMPROVEMENT" ->
            "Marginal improvement detected. You're on the right track but there's more work to do."
      [] overall_verdict = "SLIGHT_REGRESSION" ->
            "Your technique has slightly regressed. Review the feedback from your first attempt and focus on those areas."
      [] overall_verdict = "MAINTAINED" ->
            "Your technique is consistent between attempts. Focus on specific areas to see improvement."

\* Lines 974-987: the result
ImprovementResult(shot_type, followup_shot_type, comparisons, improved_areas, regressed_areas, maintained_areas, original_accuracy, followup_accuracy, overall_verdict, avg_improvement) ==
    [shot_type |-> shot_type,
     followup_shot_type |-> followup_shot_type,
     metric_comparisons |-> comparisons,
     improved_areas |-> improved_areas,
     regressed_areas |-> regressed_areas,
     maintained_areas |-> maintained_areas,
     original_accuracy |-> original_accuracy,
     followup_accuracy |-> followup_accuracy,
     accuracy_change |-> RSub(followup_accuracy, original_accuracy),
     overall_verdict |-> overall_verdict,
     verdict_description |-> VerdictDescription(overall_verdict),
     improvement_score |-> RMin(RMax(RAdd(R(50), avg_improvement), R(0)), R(100))]

\* Mutant: the follow-up scored against the range of its own category
analyze_improvement_own_band(original_metrics, followup_metrics) ==
    LET shot_type == DictGet(original_metrics, "shot_type", "FORWARD SHOT")
        followup_shot_type == DictGet(followup_metrics, "shot_type", "FORWARD SHOT")
        comparisons == MetricComparisons(original_metrics, followup_metrics, shot_type)
        improved_areas ==
            AreasWithStatus(original_metrics, followup_metrics, comparisons, "improved")
        regressed_areas ==
            AreasWithStatus(original_metrics, followup_metrics, comparisons, "regressed")
        original_accuracy == _calculate_overall_accuracy(original_metrics, shot_type)
        followup_accuracy == _calculate_overall_accuracy(followup_metrics, followup_shot_type)
    IN  ImprovementResult(
            shot_type,
            followup_shot_type,
            comparisons,
            improved_areas,
            regressed_areas,
            AreasWithStatus(original_metrics, followup_metrics, comparisons, "maintained"),
            original_accuracy,
            followup_accuracy,
            OverallVerdict(original_accuracy, followup_accuracy,
                           Len(improved_areas), Len(regressed_areas)),
            AvgImprovement(AnalyzedMetrics(original_metrics, followup_metrics), comparisons))

\* Lines 883-987
analyze_improvement(original_metrics, followup_metrics) ==
    LET shot_type == DictGet(original_metrics, "shot_type", "FORWARD SHOT")
        comparisons == MetricComparisons(original_metrics, followup_metrics, shot_type)
        improved_areas ==
            AreasWithStatus(original_metrics, followup_metrics, comparisons, "improved")
        regressed_areas ==
            AreasWithStatus(original_metrics, followup_metrics, comparisons, "regressed")
        original_accuracy == _calculate_overall_accuracy(original_metrics, shot_type)
        followup_accuracy == _calculate_overall_accuracy(followup_metrics, shot_type)
    IN  ImprovementResult(
            shot_type,
            DictGet(followup_metrics, "shot_type", "FORWARD SHOT"),
            comparisons,
            improved_areas,
            regressed_areas,
            AreasWithStatus(original_metrics, followup_metrics, comparisons, "maintained"),
            original_accuracy,
            followup_accuracy,
            OverallVerdict(original_accuracy, followup_accuracy,
                           Len(improved_areas), Len(regressed_areas)),
            AvgImprovement(AnalyzedMetrics(original_metrics, followup_metrics), comparisons))

-----------------------------------------------------------------------------
(* _calculate_metric_score on its own, over a grid of values and the
   configured ranges *)

MaxBelow == 40      \* values from -MaxBelow ...
MaxValue == 220     \* ... to MaxValue, in steps of one half

MetricKeys == MetricKeysOf(comparison_metrics)

ShotTypes == DOMAIN optimal_ranges

\* Every range _get_optimal_range can return, and a range of width 0
ScoreRanges ==
    {_get_optimal_range(m, t) : m \in MetricKeys \cup {"knee_bracing"},
                                t \in ShotTypes \cup {"UNKNOWN"}}
    \cup {<<5, 5>>}

ScoreInit ==
    /\ RunInit
    /\ ModuleInit
    /\ args \in {[fn |-> "_calculate_metric_score", value |-> Rat(k, 2), optimal_range |-> b] :
                    k \in (-2 * MaxBelow)..(2 * MaxValue), b \in ScoreRanges}
    /\ ret = NoRet

CallMetricScore ==
    /\ args.fn = "_calculate_metric_score"
    /\ ~ret.called
    /\ ret' = Returned(_calculate_metric_score(args.value, args.optimal_range))
    /\ UNCHANGED <<runVars, args, moduleVars>>

SpecScore == ScoreInit /\ [][CallMetricScore]_vars

ArgLo == R(args.optimal_range[1])
ArgHi == R(args.optimal_range[2])
ArgMid == RDiv(RAdd(ArgLo, ArgHi), R(2))
ArgHalf == RDiv(RSub(ArgHi, ArgLo), R(2))
ArgInside == RLe(ArgLo, args.value) /\ RLe(args.value, ArgHi)

\* Distance from the value to the nearest edge of the range
ArgEdgeDistance ==
    RMin(RAbs(RSub(args.value, ArgLo)), RAbs(RSub(args.value, ArgHi)))

C9_SaturatesAt20 ==
    (ret.called /\ ~ArgInside /\ RLe(R(30), ArgEdgeDistance)) => ret.value = R(20)

\* C9 amended: the midpoint of a range scores 100; outside the range the
\* score does not increase as the value moves further away, and it
\* saturates at 30: every value 25 or more outside the range scores exactly
\* 30, and no value scores less than 30.
C9_SaturatesAt30 ==
    ret.called =>
        /\ args.value = ArgMid => ret.value = R(100)
        /\ ~ArgInside =>
              LET further == IF RLt(args.value, ArgLo)
                             THEN RSub(args.value, Rat(1, 2))
                             ELSE RAdd(args.value, Rat(1, 2))
              IN  RLe(_calculate_metric_score(further, args.optimal_range), ret.value)
        /\ (~ArgInside /\ RLe(R(25), ArgEdgeDistance)) => ret.value = R(30)
        /\ RLe(R(30), ret.value)

\* A value 30 below its range scores 30
C9_Witness ==
    /\ ret.called
    /\ RSub(ArgLo, args.value) = R(30)
    /\ ret.value = R(30)

-----------------------------------------------------------------------------
(* analyze_improvement on its own, over pairs of metrics records *)

\* The values a record can hold for a metric; a record can also lack the metric
MetricValues ==
    [max_elbow_angle |-> <<R(150), R(170)>>,
     weight_transfer_amount |-> <<R(2), R(10)>>,
     body_rotation_total |-> <<R(10), R(30)>>,
     head_movement |-> <<R(15), R(7), Rat(25, 2)>>]

MetricChoices ==
    {c \in [MetricKeys -> 0..3] : \A m \in MetricKeys : c[m] <= Len(MetricValues[m])}

\* The record holding the chosen value of every metric chosen, and the
\* category t unless t is "absent"
RecordOf(c, t) ==
    LET ms == [m \in {k \in MetricKeys : c[k] # 0} |-> MetricValues[m][c[m]]]
    IN  IF t = "absent" THEN ms ELSE ms @@ ("shot_type" :> t)

OriginalRecords == {RecordOf(c, t) : c \in MetricChoices, t \in {"DRIVE", "absent"}}
FollowupRecords == {RecordOf(c, t) : c \in MetricChoices, t \in {"DRIVE", "absent"}}

ImproveInit ==
    /\ RunInit
    /\ ModuleInit
    /\ args \in {[fn |-> "analyze_improvement", original_metrics |-> o, followup_metrics |-> f] :
                    o \in OriginalRecords, f \in FollowupRecords}
    /\ ret = NoRet

CallAnalyzeImprovement ==
    /\ args.fn = "analyze_improvement"
    /\ ~ret.called
    /\ ret' = Returned(analyze_improvement(args.original_metrics, args.followup_metrics))
    /\ UNCHANGED <<runVars, args, moduleVars>>

SpecImprove == ImproveInit /\ [][CallAnalyzeImprovement]_vars

\* The metrics filed in a group of the result
AreaMetrics(areas) == {areas[i].metric : i \in 1..Len(areas)}

\* C10: every one of the four metrics present in both records, and no other,
\* is compared; its delta is score(follow-up) - score(original), both against
\* the range of the original's category; it is filed once, in improved_areas
\* iff delta > 5, in regressed_areas iff delta < -5, in maintained_areas
\* otherwise; the groups are disjoint and together hold the compared metrics.
C10_DeltaGroups ==
    ret.called =>
        LET o == args.original_metrics
            f == args.followup_metrics
            res == ret.value
            imp == AreaMetrics(res.improved_areas)
            reg == AreaMetrics(res.regressed_areas)
            mnt == AreaMetrics(res.maintained_areas)
            band(m) == _get_optimal_range(m, DictGet(o, "shot_type", "FORWARD SHOT"))
            delta(m) == RSub(_calculate_metric_score(f[m], band(m)),
                             _calculate_metric_score(o[m], band(m)))
        IN  /\ DOMAIN res.metric_comparisons = {m \in MetricKeys : m \in DOMAIN o /\ m \in DOMAIN f}
            /\ \A m \in DOMAIN res.metric_comparisons :
                  /\ res.metric_comparisons[m].score_change = delta(m)
                  /\ m \in imp <=> RLt(R(5), delta(m))
                  /\ m \in reg <=> RLt(delta(m), R(-5))
                  /\ m \in mnt <=> (RLe(R(-5), delta(m)) /\ RLe(delta(m), R(5)))
            /\ imp \cap reg = {} /\ imp \cap mnt = {} /\ reg \cap mnt = {}
            /\ imp \cup reg \cup mnt = DOMAIN res.metric_comparisons
            /\ Len(res.improved_areas) + Len(res.regressed_areas) + Len(res.maintained_areas)
                  = Cardinality(DOMAIN res.metric_comparisons)

\* All three groups are filled, and one metric is kept with a delta of exactly 5
C10_Witness ==
    /\ ret.called
    /\ ret.value.improved_areas # <<>>
    /\ ret.value.regressed_areas # <<>>
    /\ \E m \in AreaMetrics(ret.value.maintained_areas) :
          ret.value.metric_comparisons[m].score_change = R(5)

-----------------------------------------------------------------------------
(* analyze_improvement over pairs of DRIVE records whose accuracies lie at
   the thresholds of the verdict *)

\* Records of the same category: the elbow angle and the weight transfer
\* are present or absent, the head movement takes one of five values
VerdictRecords ==
    {RecordOf([max_elbow_angle |-> e, weight_transfer_amount |-> w,
               body_rotation_total |-> 0, head_movement |-> h], "DRIVE") :
        e \in {0, 1}, w \in {0, 2}, h \in 0..3}
    \cup {[max_elbow_angle |-> R(150), weight_transfer_amount |-> R(10),
           head_movement |-> Rat(45, 2), shot_type |-> "DRIVE"],
          [max_elbow_angle |-> R(150), head_movement |-> Rat(45, 2), shot_type |-> "DRIVE"],
          [weight_transfer_amount |-> R(10), head_movement |-> Rat(45, 2), shot_type |-> "DRIVE"],
          [head_movement |-> Rat(45, 2), shot_type |-> "DRIVE"]}

VerdictInit ==
    /\ RunInit
    /\ ModuleInit
    /\ \E o \in VerdictRecords, f \in VerdictRecords :
          args = [fn |-> "analyze_improvement", original_metrics |-> o, followup_metrics |-> f]
    /\ ret = NoRet

SpecVerdict == VerdictInit /\ [][CallAnalyzeImprovement]_vars

-----------------------------------------------------------------------------
(* The verdict of analyze_improvement *)

\* The mean of the scores of the metrics present in a record, against the
\* ranges of category t; 0 if none is present
MeanAccuracy(metrics, t) ==
    LET present == SelectSeq(comparison_metrics, LAMBDA m : m \in DOMAIN metrics)
    IN  IF present = <<>> THEN R(0)
        ELSE RDiv(SumSeq([i \in 1..Len(present) |->
                            _calculate_metric_score(metrics[present[i]],
                                                    _get_optimal_range(present[i], t))]),
                  R(Len(present)))

\* The verdict rule over two accuracies and the counts of improved and
\* regressed metrics
VerdictRule(ao, af, ni, nr) ==
    IF RLt(RAdd(ao, R(5)), af) THEN "IMPROVED"
    ELSE IF RLt(af, RSub(ao, R(5))) THEN "REGRESSED"
    ELSE IF ni > nr THEN "SLIGHT_IMPROVEMENT"
    ELSE IF ni < nr THEN "SLIGHT_REGRESSION"
    ELSE "MAINTAINED"

\* The category of the original record of the call
ArgCategory == DictGet(args.original_metrics, "shot_type", "FORWARD SHOT")

ArgOriginalMean == MeanAccuracy(args.original_metrics, ArgCategory)
ArgFollowupMean == MeanAccuracy(args.followup_metrics, ArgCategory)

\* C11 as stated: the verdict is the rule applied to the two accuracies,
\* the accuracy of a record being the mean of its per-metric scores (0 if no
\* metric is present): IMPROVED iff the follow-up's exceeds the original's
\* by more than 5, REGRESSED iff it is more than 5 below, otherwise by the
\* counts of improved and regressed metrics.
C11_VerdictOfMeans ==
    ret.called =>
        ret.value.overall_verdict =
            VerdictRule(ArgOriginalMean, ArgFollowupMean,
                        Len(ret.value.improved_areas), Len(ret.value.regressed_areas))

\* The verdict that mirrors a verdict
MirrorVerdict(v) ==
    CASE v = "IMPROVED" -> "REGRESSED"
      [] v = "REGRESSED" -> "IMPROVED"
      [] v = "SLIGHT_IMPROVEMENT" -> "SLIGHT_REGRESSION"
      [] v = "SLIGHT_REGRESSION" -> "SLIGHT_IMPROVEMENT"
      [] v = "MAINTAINED" -> "MAINTAINED"

\* The result of the call with its two arguments exchanged
SwappedResult == analyze_improvement(args.followup_metrics, args.original_metrics)

SameCategory ==
    DictGet(args.original_metrics, "shot_type", "absent")
        = DictGet(args.followup_metrics, "shot_type", "absent")

\* C12 as stated: for two records of the same category, exchanging the
\* arguments mirrors the verdict (IMPROVED with REGRESSED, SLIGHT_IMPROVEMENT
\* with SLIGHT_REGRESSION, MAINTAINED with itself), changes the sign of every
\* per-metric delta, and exchanges the metrics of improved_areas and
\* regressed_areas.
C12_SwapMirrors ==
    (ret.called /\ SameCategory) =>
        /\ SwappedResult.overall_verdict = MirrorVerdict(ret.value.overall_verdict)
        /\ DOMAIN SwappedResult.metric_comparisons = DOMAIN ret.value.metric_comparisons
        /\ \A m \in DOMAIN ret.value.metric_comparisons :
              SwappedResult.metric_comparisons[m].score_change
                  = RSub(R(0), ret.value.metric_comparisons[m].score_change)
        /\ AreaMetrics(SwappedResult.improved_areas) = AreaMetrics(ret.value.regressed_areas)
        /\ AreaMetrics(SwappedResult.regressed_areas) = AreaMetrics(ret.value.improved_areas)

-----------------------------------------------------------------------------
(* The follow-up's category *)

\* The record with its category set to t, or removed when t is "absent"
WithCategory(metrics, t) ==
    IF t = "absent"
    THEN [k \in DOMAIN metrics \ {"shot_type"} |-> metrics[k]]
    ELSE [k \in DOMAIN metrics \cup {"shot_type"} |->
             IF k = "shot_type" THEN t ELSE metrics[k]]

\* The categories given to the other follow-up
OtherCategories == {"PULL/HOOK", "absent"}

\* C13: a follow-up that differs from the one of the call only in shot_type
\* gives a result that differs only in followup_shot_type, which records the
\* follow-up's category (FORWARD SHOT when it has none).
C13_FollowupCategoryUnused ==
    ret.called =>
        \A t \in OtherCategories :
            LET other == analyze_improvement(args.original_metrics,
                                             WithCategory(args.followup_metrics, t))
            IN  /\ other.followup_shot_type = IF t = "absent" THEN "FORWARD SHOT" ELSE t
                /\ [other EXCEPT !.followup_shot_type = "any"]
                      = [ret.value EXCEPT !.followup_shot_type = "any"]

\* A DRIVE original and a follow-up recorded as FORWARD SHOT whose elbow
\* angle would score differently against the FORWARD SHOT range
C13_Witness ==
    /\ ret.called
    /\ ret.value.shot_type = "DRIVE"
    /\ ret.value.followup_shot_type = "FORWARD SHOT"
    /\ "max_elbow_angle" \in DOMAIN ret.value.metric_comparisons
    /\ ret.value.metric_comparisons["max_elbow_angle"].followup_score
          # _calculate_metric_score(args.followup_metrics["max_elbow_angle"],
                                    _get_optimal_range("max_elbow_angle", "FORWARD SHOT"))

-----------------------------------------------------------------------------
(* CricketAdviceEngine.  A string is a sequence of pieces, a piece a literal
   text or a formatted number; the empty string is the empty sequence.
   Characters outside ASCII are written as bracketed names. *)

Lit(s) == [lit |-> s]

\* "{x:.1f}": the nearest number of tenths
Fmt1(x) == IF x.n < 0 THEN RSub(R(0), Round1(RAbs(x))) ELSE Round1(x)

Num1(x) == [num1 |-> Fmt1(x)]

Text(s) == <<Lit(s)>>

Msg(pre, value, post) == <<Lit(pre), Num1(value), Lit(post)>>

EmptyString == <<>>

\* Lines 41-309: self.shot_specific_advice (common_flaws is read by no method)
shot_specific_advice ==
    ("DRIVE" :>
        [description |->
            "The drive is the cornerstone of classical batting technique. A flowing, elegant stroke played to full-length deliveries, it requires perfect synchronization of footwork, head position, and bat swing. The front-foot drive is considered the measure of a batsman's technical proficiency.",
         key_focus |->
            <<"Full front arm extension through the shot",
            "Balanced weight transfer onto front foot",
            "Head still and over the ball at impact",
            "High elbow position maintaining bat control",
            "Front foot pointing towards the ball",
            "Smooth follow-through towards target",
            "Eyes level throughout the stroke",
            "Front knee bent but firm at impact">>,
         drills |->
            <<"Front foot drives off a bowling machine at 70% pace - focus on head position",
            "Shadow batting with mirror - check elbow height at impact point",
            "Throw-downs with tennis ball - exaggerate weight transfer",
            "Drive against wall with taped target - practice follow-through direction">>])
    @@
    ("PULL/HOOK" :>
        [description |->
            "The pull and hook are aggressive back-foot shots played to short-pitched deliveries. The pull is played to balls at chest height with a horizontal bat, while the hook is played to balls at head height. Both require excellent reflexes, quick weight transfer, and precise timing to control the ball's trajectory.",
         key_focus |->
            <<"Quick weight transfer to back foot",
            "Strong hip and shoulder rotation",
            "Head still and eyes on the ball",
            "Balanced finish position",
            "Back foot pivoting for power generation",
            "Arms away from body for free swing",
            "Roll wrists to keep ball down",
            "Watch ball onto bat until contact">>,
         drills |->
            <<"Short ball machine work - start at reduced pace and gradually increase",
            "Tennis ball throws at head height - practice ducking vs playing",
            "Pull shot shadow batting focusing on hip rotation",
            "Reaction drills with colored balls - decide pull vs duck">>])
    @@
    ("CUT" :>
        [description |->
            "The cut shot is a controlled horizontal bat stroke played to short, wide deliveries outside off stump. It requires excellent judgment of length and width, late bat movement, and precise wrist control. The square cut and late cut are variations based on timing and placement.",
         key_focus |->
            <<"Late bat movement for deception",
            "Weight centered or slightly back",
            "Strong wrist control at impact",
            "Upper body rotation for power",
            "Back foot moving across to the ball",
            "High hands through the shot",
            "Watch ball right onto the bat",
            "Controlled follow-through">>,
         drills |->
            <<"Side-on throw-downs outside off stump - practice leaving vs cutting decision",
            "Cut shot against spin bowling - develops timing and placement",
            "Back foot movement drills - quick lateral steps",
            "Wrist strengthening exercises for better bat control">>])
    @@
    ("DEFENSIVE" :>
        [description |->
            "The defensive shot is the foundation of all batting. It's about survival, occupying the crease, and negating good deliveries. A solid defense frustrates bowlers and creates opportunities for scoring. The forward and back defensive are essential for building innings.",
         key_focus |->
            <<"Soft, relaxed hands to deaden the ball",
            "Head directly over the ball at contact",
            "Minimal backlift for control",
            "Solid, balanced base",
            "Bat angled down to cover bounce",
            "Eyes level and watching the ball",
            "Front elbow high and leading",
            "Pad and bat close together">>,
         drills |->
            <<"Defense against spin on turning pitches - practice smothering turn",
            "Ball drop exercises - soft hands catching drill",
            "Forward defense with eyes closed (after release) - trust technique",
            "Defense against seam movement - focus on playing late">>])
    @@
    ("SWEEP" :>
        [description |->
            "The sweep is a premeditated shot played against spin bowling, particularly to full-length deliveries. It involves getting low and using a horizontal bat to sweep the ball to the leg side. Variations include the paddle sweep and reverse sweep for different placements.",
         key_focus |->
            <<"Low body position with bent knees",
            "Weight committed forward",
            "Top hand controlling bat face",
            "Head over front knee",
            "Front pad outside line of ball",
            "Roll bat face for placement",
            "Committed decisive movement",
            "Use pad as secondary defense">>,
         drills |->
            <<"Sweep against underarm spin throws - build confidence",
            "Knee strengthening for low position maintenance",
            "Placement practice - cones at fine leg, square leg, backward square",
            "Switch between sweep and pad-first defense based on line">>])
    @@
    ("LOFTED" :>
        [description |->
            "Lofted shots are aggressive aerial strokes designed to clear the infield or hit boundaries. They require confident technique, excellent timing, and commitment. The straight drive over the bowler and the lofted on-drive are high-risk, high-reward shots that can change a game.",
         key_focus |->
            <<"Full, free swing through the ball",
            "Strong, stable base throughout",
            "Head still at point of contact",
            "Complete follow-through high",
            "Trust your technique and timing",
            "Get to the pitch of the ball",
            "Smooth acceleration through impact",
            "Maintain balance on landing">>,
         drills |->
            <<"Lofted drives with tennis ball first - build confidence",
            "Target practice - hit cones at different distances",
            "Footwork drills - quick steps to pitch of ball",
            "Balance exercises - single leg stability">>])
    @@
    ("FORWARD SHOT" :>
        [description |->
            "A general forward playing shot that encompasses various front-foot strokes. The key is transferring weight onto the front foot while maintaining balance and keeping the head over the ball. This forms the basis for all attacking and defensive front-foot play.",
         key_focus |->
            <<"Front foot moving towards pitch of ball",
            "Head leading the movement",
            "Straight bat face at impact",
            "Balanced weight transfer",
            "Eyes level and watching ball",
            "Front knee bent for stability",
            "Back foot stays grounded initially",
            "Smooth weight shift not lunge">>,
         drills |->
            <<"Front foot stride practice with marker cones",
            "Head position drills - balance book on head during shadow batting",
            "Weight transfer exercises with resistance bands",
            "Slow motion practice focusing on sequence of movements">>])
    @@
    ("FLICK" :>
        [description |->
            "The flick or clip is a wristy shot played to deliveries on the pads, directing the ball to the leg side. It requires excellent timing, supple wrists, and precise bat control. The shot can be played off front or back foot and is essential for scoring against straight bowling.",
         key_focus |->
            <<"Wrist rotation at point of contact",
            "Meet ball in front of pad",
            "Soft hands for control",
            "Head still over the ball",
            "Front foot clearing the way",
            "Bottom hand guides placement",
            "Watch ball onto bat",
            "Controlled follow-through">>,
         drills |->
            <<"Wrist flexibility exercises with bat",
            "Throw-downs on leg stump - practice placement",
            "Flick vs defend decision drills",
            "One-handed bottom hand practice for feel">>])
    @@
    ("LEAVE" :>
        [description |->
            "Leaving the ball is as important as playing it. Good judgment of line and length, combined with proper technique when shouldering arms, protects your wicket and frustrates bowlers. The leave is a statement of control and composure.",
         key_focus |->
            <<"Early judgment of line and length",
            "Bat raised out of way",
            "Body balanced and still",
            "Eyes following ball past",
            "Back foot movement if needed",
            "Confident, decisive movement",
            "Arms away from body",
            "Relaxed shoulders">>,
         drills |->
            <<"Leave practice with colored balls - leave red, play blue",
            "Line and length judgment from side on video",
            "Practice sessions where you can only leave - builds patience",
            "Shoulder arms technique in front of mirror">>])
    @@
    ("BACK FOOT DEFENSE" :>
        [description |->
            "The back foot defensive shot is played to short-of-length deliveries that don't warrant an attacking stroke. It's about getting behind the line, playing late, and controlling the ball down. Essential against pace and bounce.",
         key_focus |->
            <<"Quick back foot movement",
            "Get behind the line of ball",
            "High hands, soft grip",
            "Play under the eyes",
            "Angled bat to play down",
            "Weight balanced on both feet",
            "Watch ball onto bat",
            "Controlled follow-through down">>,
         drills |->
            <<"Back foot trigger movement practice",
            "Short ball defense with tennis balls",
            "Shadow batting focusing on high hands",
            "Catching practice to develop soft hands">>])

\* Lines 597-608: pro_tips
pro_tips ==
    ("DRIVE" :>
        "[tip] Pro Tip: For classic drives, imagine painting a straight line from your bat's position at address to your follow-through. Your head should be the heaviest thing going forward.")
    @@ ("PULL/HOOK" :>
        "[tip] Pro Tip: Watch the ball onto the bat - pull shots require excellent ball tracking. Commit early but execute late, and roll your wrists at impact to keep the ball down.")
    @@ ("CUT" :>
        "[tip] Pro Tip: Use your bottom hand to guide and your top hand to control - wrist flexibility is key. Wait for the ball to come to you, don't go looking for it.")
    @@ ("DEFENSIVE" :>
        "[tip] Pro Tip: Think 'soft hands' - defensive shots should deaden the ball, not push it. Imagine you're catching an egg - that's the grip pressure you need.")
    @@ ("SWEEP" :>
        "[tip] Pro Tip: Get your front pad outside the line to give yourself room and protection. The sweep is premeditated - decide early and commit fully.")
    @@ ("LOFTED" :>
        "[tip] Pro Tip: Trust your technique and swing through - don't try to hit too hard, let timing do the work. Get to the pitch of the ball with your feet.")
    @@ ("FORWARD SHOT" :>
        "[tip] Pro Tip: Your head should lead every forward movement. Where your head goes, your body follows. Practice until it becomes automatic.")
    @@ ("FLICK" :>
        "[tip] Pro Tip: The flick is all about timing the wrist turn. Play along the line first, then roll the wrists - think of it as redirecting, not hitting.")
    @@ ("LEAVE" :>
        "[tip] Pro Tip: The best batsmen know what not to play. A good leave is as valuable as a good shot - it shows control and understanding of your off stump.")
    @@ ("BACK FOOT DEFENSE" :>
        "[tip] Pro Tip: Get back and across quickly, but play the ball under your eyes. High hands and soft grip are your best friends against pace.")

\* An entry of the dictionary built by _analyze_metrics
Analysis(metric, value, status, importance) ==
    [metric |-> metric, value |-> value, status |-> status, importance |-> importance]

\* Lines 391-409
ElbowAnalysis(metrics, shot_type) ==
    IF "max_elbow_angle" \notin DOMAIN metrics THEN <<>>
    ELSE LET angle == metrics["max_elbow_angle"]
         IN  IF shot_type \in {"DRIVE", "DEFENSIVE", "FORWARD SHOT"}
             THEN IF RLe(R(165), angle)
                  THEN <<Analysis("elbow_angle", angle, "excellent", "high")>>
                  ELSE IF RLe(R(155), angle)
                  THEN <<Analysis("elbow_angle", angle, "needs_improvement", "high")>>
                  ELSE <<Analysis("elbow_angle", angle, "poor", "high")>>
             ELSE IF RLe(R(150), angle)
                  THEN <<Analysis("elbow_angle", angle, "excellent", "medium")>>
                  ELSE IF RLe(R(135), angle)
                  THEN <<Analysis("elbow_angle", angle, "needs_improvement", "medium")>>
                  ELSE <<Analysis("elbow_angle", angle, "poor", "high")>>

\* Lines 412-438
WeightAnalysis(metrics, shot_type) ==
    IF "weight_transfer_amount" \notin DOMAIN metrics THEN <<>>
    ELSE LET transfer == metrics["weight_transfer_amount"]
         IN  IF shot_type \in {"DRIVE", "FORWARD SHOT", "LOFTED"}
             THEN IF RLe(R(8), transfer)
                  THEN <<Analysis("weight_transfer", transfer, "excellent", "high")>>
                  ELSE IF RLe(R(3), transfer)
                  THEN <<Analysis("weight_transfer", transfer, "needs_improvement", "high")>>
                  ELSE <<Analysis("weight_transfer", transfer, "poor", "high")>>
             ELSE IF shot_type \in {"PULL/HOOK", "CUT"}
             THEN IF RLe(transfer, R(2))
                  THEN <<Analysis("weight_transfer", transfer, "excellent", "high")>>
                  ELSE IF RLe(transfer, R(5))
                  THEN <<Analysis("weight_transfer", transfer, "needs_improvement", "high")>>
                  ELSE <<Analysis("weight_transfer", transfer, "poor", "high")>>
             ELSE IF RLe(R(0), transfer) /\ RLe(transfer, R(5))
                  THEN <<Analysis("weight_transfer", transfer, "excellent", "medium")>>
                  ELSE <<Analysis("weight_transfer", transfer, "needs_improvement", "medium")>>

\* Lines 441-469
RotationAnalysis(metrics, shot_type) ==
    IF "body_rotation_total" \notin DOMAIN metrics THEN <<>>
    ELSE LET rotation == metrics["body_rotation_total"]
         IN  IF shot_type \in {"PULL/HOOK", "SWEEP", "CUT"}
             THEN IF RLe(R(45), rotation)
                  THEN <<Analysis("body_rotation", rotation, "excellent", "high")>>
                  ELSE IF RLe(R(30), rotation)
                  THEN <<Analysis("body_rotation", rotation, "needs_improvement", "high")>>
                  ELSE <<Analysis("body_rotation", rotation, "poor", "high")>>
             ELSE IF shot_type = "DEFENSIVE"
             THEN IF RLe(rotation, R(15))
                  THEN <<Analysis("body_rotation", rotation, "excellent", "high")>>
                  ELSE IF RLe(rotation, R(25))
                  THEN <<Analysis("body_rotation", rotation, "needs_improvement", "medium")>>
                  ELSE <<Analysis("body_rotation", rotation, "poor", "medium")>>
             ELSE IF RLe(R(20), rotation) /\ RLe(rotation, R(45))
                  THEN <<Analysis("body_rotation", rotation, "excellent", "medium")>>
                  ELSE IF RLt(rotation, R(15)) \/ RLt(R(60), rotation)
                  THEN <<Analysis("body_rotation", rotation, "poor", "high")>>
                  ELSE <<Analysis("body_rotation", rotation, "needs_improvement", "medium")>>

\* Lines 472-479
HeadAnalysis(metrics) ==
    IF "head_movement" \notin DOMAIN metrics THEN <<>>
    ELSE LET head_movement == metrics["head_movement"]
         IN  IF RLe(head_movement, R(8))
             THEN <<Analysis("head_stability", head_movement, "excellent", "high")>>
             ELSE IF RLe(head_movement, R(20))
             THEN <<Analysis("head_stability", head_movement, "needs_improvement", "high")>>
             ELSE <<Analysis("head_stability", head_movement, "poor", "high")>>

\* Lines 482-491
KneeBracingAnalysis(metrics, shot_type) ==
    IF "knee_bracing" \notin DOMAIN metrics \/ shot_type \notin {"DRIVE", "FORWARD SHOT"}
    THEN <<>>
    ELSE LET knee_bracing == metrics["knee_bracing"]
         IN  IF RLe(R(15), knee_bracing)
             THEN <<Analysis("knee_bracing", knee_bracing, "excellent", "medium")>>
             ELSE IF RLe(R(5), knee_bracing)
             THEN <<Analysis("knee_bracing", knee_bracing, "needs_improvement", "medium")>>
             ELSE <<Analysis("knee_bracing", knee_bracing, "poor", "medium")>>

\* Lines 493-500
StanceKneeAnalysis(metrics) ==
    IF "stance_knee_angle" \notin DOMAIN metrics THEN <<>>
    ELSE LET knee_angle == metrics["stance_knee_angle"]
         IN  IF RLe(R(120), knee_angle) /\ RLe(knee_angle, R(145))
             THEN <<Analysis("stance_knee", knee_angle, "excellent", "low")>>
             ELSE IF RLt(knee_angle, R(110)) \/ RLt(R(160), knee_angle)
             THEN <<Analysis("stance_knee", knee_angle, "poor", "medium")>>
             ELSE <<Analysis("stance_knee", knee_angle, "needs_improvement", "low")>>

\* Lines 387-502: the entries of the dictionary, in the order of insertion
_analyze_metrics(metrics, shot_type) ==
    ElbowAnalysis(metrics, shot_type) \o WeightAnalysis(metrics, shot_type)
        \o RotationAnalysis(metrics, shot_type) \o HeadAnalysis(metrics)
        \o KneeBracingAnalysis(metrics, shot_type) \o StanceKneeAnalysis(metrics)

\* Lines 509-529: feedback_type 'strength'
StrengthFeedback(metric, value, shot_type) ==
    IF metric = "elbow_angle" THEN
        Msg("[check] Excellent arm extension (", value, " deg) - your front arm is beautifully straight, generating optimal power and control")
    ELSE IF metric = "weight_transfer" THEN
        IF shot_type \in {"DRIVE", "FORWARD SHOT"} THEN
            Msg("[check] Perfect weight transfer forward (", value, ") - you're getting excellent momentum into the shot")
        ELSE IF shot_type \in {"PULL/HOOK", "CUT"} THEN
            Msg("[check] Good weight distribution (", value, ") - well balanced for a back-foot shot")
        ELSE EmptyString
    ELSE IF metric = "body_rotation" THEN
        IF shot_type \in {"PULL/HOOK", "SWEEP"} THEN
            Msg("[check] Powerful body rotation (", value, " deg) - great use of your core to generate power")
        ELSE IF shot_type = "DEFENSIVE" THEN
            Msg("[check] Controlled body movement (", value, " deg) - excellent defensive technique with minimal rotation")
        ELSE
            Msg("[check] Good shoulder turn (", value, " deg) - optimal rotation for this shot")
    ELSE IF metric = "head_stability" THEN
        Msg("[check] Excellent head stability (", value, " deg movement) - your head position is rock solid, crucial for timing")
    ELSE IF metric = "knee_bracing" THEN
        Msg("[check] Strong front leg bracing (", value, " deg extension) - solid base for power transfer")
    ELSE IF metric = "stance_knee" THEN
        Msg("[check] Balanced stance position (", value, " deg) - good athletic base")
    ELSE EmptyString

\* Lines 531-563: feedback_type 'flaw'
FlawFeedback(metric, value, shot_type) ==
    IF metric = "elbow_angle" THEN
        IF shot_type \in {"DRIVE", "FORWARD SHOT"} THEN
            Msg("[warn] Bent front arm (", value, " deg) - for drives, keep your front arm straighter through impact for better timing and power")
        ELSE
            Msg("[warn] Elbow too bent (", value, " deg) - work on fuller arm extension to improve bat speed")
    ELSE IF metric = "weight_transfer" THEN
        IF shot_type \in {"DRIVE", "FORWARD SHOT", "LOFTED"} THEN
            IF RLt(value, R(0)) THEN
                Msg("[warn] Weight going backwards (", value, ") - you're falling away from the ball. Get your weight moving forward")
            ELSE
                Msg("[warn] Insufficient weight transfer (", value, ") - commit more to moving forward into the shot")
        ELSE IF shot_type \in {"PULL/HOOK", "CUT"} THEN
            Msg("[warn] Too much forward weight transfer (", value, ") - these back-foot shots need weight back, not forward")
        ELSE EmptyString
    ELSE IF metric = "body_rotation" THEN
        IF shot_type \in {"PULL/HOOK", "CUT"} THEN
            Msg("[warn] Limited body rotation (", value, " deg) - generate more power by using your hips and shoulders")
        ELSE IF shot_type = "DEFENSIVE" THEN
            Msg("[warn] Excessive body movement (", value, " deg) - defensive shots need minimal rotation for better control")
        ELSE IF RLt(value, R(15)) THEN
            Msg("[warn] Too little body rotation (", value, " deg) - engage your core more to generate power")
        ELSE
            Msg("[warn] Over-rotating (", value, " deg) - this can cause loss of balance and power")
    ELSE IF metric = "head_stability" THEN
        Msg("[warn] Head movement detected (", value, " deg) - excessive head movement disrupts timing and ball tracking")
    ELSE IF metric = "knee_bracing" THEN
        Msg("[warn] Weak front leg (", value, " deg change) - brace your front leg more firmly for better energy transfer")
    ELSE IF metric = "stance_knee" THEN
        IF RLt(value, R(120)) THEN
            Msg("[warn] Stance too low (", value, " deg) - raise your stance slightly for better movement")
        ELSE
            Msg("[warn] Stance too upright (", value, " deg) - lower your stance for better balance")
    ELSE EmptyString

\* Lines 565-583: feedback_type 'recommendation'
RecommendationFeedback(metric, shot_type) ==
    IF metric = "elbow_angle" THEN
        Text("[tip] Drill: Practice shadow batting with emphasis on keeping your front arm fully extended. Hold the finish position to feel the stretch")
    ELSE IF metric = "weight_transfer" THEN
        IF shot_type \in {"DRIVE", "FORWARD SHOT"} THEN
            Text("[tip] Drill: Practice stepping forward into a front-foot drive, focusing on feeling your weight shift onto your front foot")
        ELSE IF shot_type \in {"PULL/HOOK", "CUT"} THEN
            Text("[tip] Drill: Practice weight transfer to your back foot. Do shadow pulls, ensuring you feel balanced on your back leg")
        ELSE EmptyString
    ELSE IF metric = "body_rotation" THEN
        IF shot_type \in {"PULL/HOOK"} THEN
            Text("[tip] Drill: Practice hip and shoulder rotation exercises. Focus on pivoting your back foot to generate power")
        ELSE IF shot_type = "DEFENSIVE" THEN
            Text("[tip] Drill: Practice defensive shots with focus on minimal body movement - quiet hands and solid base")
        ELSE
            Text("[tip] Drill: Work on core rotation - practice turning your shoulders while keeping head still")
    ELSE IF metric = "head_stability" THEN
        Text("[tip] Drill: Place a cap with water on your head during shadow batting. Practice keeping it balanced - this forces head stillness")
    ELSE IF metric = "knee_bracing" THEN
        Text("[tip] Drill: Practice leg strengthening exercises (lunges, single-leg squats) to build a stronger, more stable base")
    ELSE EmptyString

\* Lines 504-585
_get_contextual_feedback(metric, analysis, shot_type, feedback_type) ==
    IF feedback_type = "strength"
    THEN StrengthFeedback(metric, analysis.value, shot_type)
    ELSE IF feedback_type = "flaw"
    THEN FlawFeedback(metric, analysis.value, shot_type)
    ELSE IF feedback_type = "recommendation"
    THEN RecommendationFeedback(metric, shot_type)
    ELSE EmptyString

\* The first n elements of a list: s[:n]
Take(s, n) == IF Len(s) <= n THEN s ELSE SubSeq(s, 1, n)

\* The states of the generator of the module random: 0 .. MaxRandom.  The
\* generator is abstracted to a counter: a draw returns the element the
\* state selects and moves the state on.
MaxRandom == 3

RandomStates == 0..MaxRandom

NextRandom(s) == (s + 1) % (MaxRandom + 1)

\* Line 615: random.choice(seq), on the global generator
random_choice(seq) == seq[(random_state % Len(seq)) + 1]

\* Lines 591-592, 614: whether _get_shot_specific_recommendations draws
DrawsDrill(shot_type) ==
    /\ shot_type \in DOMAIN shot_specific_advice
    /\ shot_specific_advice[shot_type].drills # <<>>

\* Lines 587-618
_get_shot_specific_recommendations(metrics, shot_type) ==
    IF shot_type \notin DOMAIN shot_specific_advice THEN <<>>
    ELSE (IF shot_type \in DOMAIN pro_tips THEN <<Text(pro_tips[shot_type])>> ELSE <<>>)
         \o (IF DrawsDrill(shot_type)
             THEN << <<Lit("[drill] Recommended Drill: "),
                       Lit(random_choice(shot_specific_advice[shot_type].drills))>> >>
             ELSE <<>>)

\* The feedback of each entry of a list of analysed metrics
FeedbackOf(entries, shot_type, feedback_type) ==
    [i \in 1..Len(entries) |->
        _get_contextual_feedback(entries[i].metric, entries[i], shot_type, feedback_type)]

\* Mutant: every excellent metric listed
AdviceStrengths_uncapped(metric_analysis, shot_type) ==
    FeedbackOf(SelectSeq(metric_analysis, LAMBDA a : a.status = "excellent"),
               shot_type, "strength")

\* Lines 345-350: the first three excellent metrics
AdviceStrengths(metric_analysis, shot_type) ==
    FeedbackOf(Take(SelectSeq(metric_analysis, LAMBDA a : a.status = "excellent"), 3),
               shot_type, "strength")

\* Mutant: the flawed metrics in evaluation order, unsorted
priority_flaws_unsorted(metric_analysis) ==
    SelectSeq(metric_analysis, LAMBDA a : a.status \in {"poor", "needs_improvement"})

\* Lines 353-361: the poor metrics, then those that need improvement (the
\* sort is stable)
priority_flaws(metric_analysis) ==
    SelectSeq(metric_analysis, LAMBDA a : a.status = "poor")
        \o SelectSeq(metric_analysis, LAMBDA a : a.status = "needs_improvement")

\* Lines 362-363
AdviceFlaws(flaws, shot_type) == FeedbackOf(Take(flaws, 4), shot_type, "flaw")

\* Lines 366-374
AdviceRecommendations(flaws, metrics, shot_type) ==
    SelectSeq(FeedbackOf(Take(flaws, 3), shot_type, "recommendation"),
              LAMBDA r : r # EmptyString)
        \o Take(_get_shot_specific_recommendations(metrics, shot_type), 2)

\* Lines 376, 379, 382: the generic entries
StrengthsFallback ==
    Text("[check] Good attempt - continue practicing to refine your technique")
FlawsFallback ==
    Text("[check] Solid technique overall - minor refinements will take you to the next level")
RecommendationsFallback ==
    Text("[tip] Keep practicing your current technique with focus on consistency")

\* Lines 376-383
OrFallback(list, fallback) == IF list = <<>> THEN <<fallback>> ELSE list

\* Lines 333-339
ShotInsights(shot_type) ==
    IF shot_type \in DOMAIN shot_specific_advice
    THEN [description |-> shot_specific_advice[shot_type].description,
          key_focus_areas |-> shot_specific_advice[shot_type].key_focus,
          recommended_drills |-> shot_specific_advice[shot_type].drills]
    ELSE EmptyDict

\* Lines 311-385
generate_advice(metrics) ==
    LET shot_type == DictGet(metrics, "shot_type", "UNKNOWN")
        metric_analysis == _analyze_metrics(metrics, shot_type)
        flaws == priority_flaws(metric_analysis)
    IN  [shot_type |-> shot_type,
         shot_confidence |-> DictGet(metrics, "shot_confidence", R(0)),
         strengths |-> OrFallback(AdviceStrengths(metric_analysis, shot_type),
                                  StrengthsFallback),
         flaws |-> OrFallback(AdviceFlaws(flaws, shot_type), FlawsFallback),
         recommendations |-> OrFallback(AdviceRecommendations(flaws, metrics, shot_type),
                                        RecommendationsFallback),
         shot_insights |-> ShotInsights(shot_type)]

\* "{x:.0f}": the nearest integer, a tie to the even one (x not negative)
Fmt0(x) ==
    LET f == x.n \div x.d
        r == x.n - f * x.d
    IN  IF 2 * r > x.d \/ (2 * r = x.d /\ f % 2 = 1) THEN f + 1 ELSE f

\* A line of 60 "="
Rule60 == Text("============================================================")

\* Every string of a list behind a prefix
Indented(prefix, list) == [i \in 1..Len(list) |-> <<Lit(prefix)>> \o list[i]]

\* Mutant: the category line written only for a category of the advice table
SummaryShotType_table_only(advice) ==
    IF advice.shot_type \in DOMAIN shot_specific_advice
    THEN << <<Lit("\n[bat] Shot Type Detected: "), Lit(advice.shot_type),
              Lit(" (Confidence: "),
              [num0 |-> Fmt0(RMul(DictGet(advice, "shot_confidence", R(0)), R(100)))],
              Lit("%)")>>,
            <<Lit("   "), Lit(advice.shot_insights.description)>> >>
    ELSE <<>>

\* Lines 628-631
SummaryShotType(advice) ==
    IF DictGet(advice, "shot_type", "") # "" /\ advice.shot_type # "UNKNOWN"
    THEN << <<Lit("\n[bat] Shot Type Detected: "), Lit(advice.shot_type),
              Lit(" (Confidence: "),
              [num0 |-> Fmt0(RMul(DictGet(advice, "shot_confidence", R(0)), R(100)))],
              Lit("%)")>> >>
         \o (IF "shot_insights" \in DOMAIN advice
                  /\ "description" \in DOMAIN advice.shot_insights
             THEN << <<Lit("   "), Lit(advice.shot_insights.description)>> >>
             ELSE <<>>)
    ELSE <<>>

\* Lines 633-641
SummarySection(header, list) ==
    IF list # <<>> THEN <<Text(header)>> \o Indented("   ", list) ELSE <<>>

\* Lines 643-646
SummaryRecommendations(list) ==
    IF list # <<>>
    THEN <<Text("\n[tip] ACTIONABLE RECOMMENDATIONS:")>>
         \o [i \in 1..Len(list) |-> <<Lit("   "), [int |-> i], Lit(". ")>> \o list[i]]
    ELSE <<>>

\* Lines 648-651
SummaryFocus(advice) ==
    IF "shot_insights" \in DOMAIN advice /\ "key_focus_areas" \in DOMAIN advice.shot_insights
    THEN << <<Lit("\n[target] KEY FOCUS AREAS FOR "), Lit(advice.shot_type), Lit(":")>> >>
         \o [i \in 1..Len(Take(advice.shot_insights.key_focus_areas, 6)) |->
                <<Lit("   * "), Lit(advice.shot_insights.key_focus_areas[i])>>]
    ELSE <<>>

\* Lines 653-658
SummaryDrills(advice) ==
    IF "shot_insights" \in DOMAIN advice
          /\ "recommended_drills" \in DOMAIN advice.shot_insights
          /\ advice.shot_insights.recommended_drills # <<>>
    THEN <<Text("\n[drill] PRACTICE DRILLS:")>>
         \o [i \in 1..Len(Take(advice.shot_insights.recommended_drills, 3)) |->
                <<Lit("   * "), Lit(advice.shot_insights.recommended_drills[i])>>]
    ELSE <<>>

\* Lines 620-664: the lines that are joined with "\n"
get_advice_summary(advice) ==
    <<Rule60, Text("CRICKET COACHING ANALYSIS REPORT"), Rule60>>
        \o SummaryShotType(advice)
        \o SummarySection("\n[check] STRENGTHS:", advice.strengths)
        \o SummarySection("\n[warn]  AREAS FOR IMPROVEMENT:", advice.flaws)
        \o SummaryRecommendations(advice.recommendations)
        \o SummaryFocus(advice)
        \o SummaryDrills(advice)
        \o <<Text("\n") \o Rule60,
             Text("Keep practicing - consistency is the key to mastery!"),
             Rule60>>

\* Lines 722-736
_generate_fallback_narrative(advice) ==
    <<Lit("Good effort on your "),
      Lit(DictGet(advice, "shot_type", "shot")),
      Lit(". "),
      Lit(IF DictGet(advice, "strengths", <<>>) # <<>>
          THEN "Your technique shows good fundamentals"
          ELSE "Keep working on the basics"),
      Lit(". "),
      Lit(IF DictGet(advice, "flaws", <<>>) # <<>>
          THEN "Focus on the areas highlighted above for improvement"
          ELSE "Continue refining your current technique"),
      Lit(". Consistent practice will help you develop muscle memory and confidence.")>>

-----------------------------------------------------------------------------
(* generate_advice and get_advice_summary on their own, over metrics records
   of every category *)

\* The values a record can hold for a metric; a record can also lack the metric
AdviceValues ==
    [max_elbow_angle |-> <<R(0), R(170)>>,
     weight_transfer_amount |-> <<R(0), R(10), R(-2)>>,
     body_rotation_total |-> <<R(0), R(30)>>,
     head_movement |-> <<R(0), Rat(61, 4)>>,
     knee_bracing |-> <<R(0), R(20)>>,
     stance_knee_angle |-> <<R(0), R(130)>>]

AdviceMetricKeys == DOMAIN AdviceValues

AdviceChoices ==
    {c \in [AdviceMetricKeys -> 0..3] : \A m \in AdviceMetricKeys : c[m] <= Len(AdviceValues[m])}

\* The categories of the advice table, UNKNOWN, a category outside the
\* table, and no category
AdviceCategories == DOMAIN shot_specific_advice \cup {"UNKNOWN", "SCOOP", "absent"}

\* The record holding the chosen value of every metric chosen, and the
\* category t with a confidence unless t is "absent"
AdviceRecordOf(c, t) ==
    LET ms == [m \in {k \in AdviceMetricKeys : c[k] # 0} |-> AdviceValues[m][c[m]]]
    IN  IF t = "absent" THEN ms
        ELSE ms @@ ("shot_type" :> t) @@ ("shot_confidence" :> Rat(85, 100))

AdviceRecords == {AdviceRecordOf(c, t) : c \in AdviceChoices, t \in AdviceCategories}

AdviceInit ==
    /\ RunInit
    /\ OPENAI_API_KEY = ""
    /\ openai_client = "None"
    /\ random_state \in RandomStates
    /\ \E m \in AdviceRecords : args = [fn |-> "generate_advice", metrics |-> m]
    /\ ret = NoRet

\* generate_advice(m): the result, and the generator moved on by the draw
AdviceCall(m) ==
    /\ ret' = Returned(generate_advice(m))
    /\ random_state' = IF DrawsDrill(DictGet(m, "shot_type", "UNKNOWN"))
                       THEN NextRandom(random_state) ELSE random_state
    /\ UNCHANGED <<runVars, OPENAI_API_KEY, openai_client>>

CallGenerateAdvice ==
    /\ args.fn = "generate_advice"
    /\ ~ret.called
    /\ AdviceCall(args.metrics)
    /\ UNCHANGED args

\* get_advice_summary on the advice just returned
CallGetAdviceSummary ==
    /\ args.fn = "generate_advice"
    /\ ret.called
    /\ args' = [fn |-> "get_advice_summary", advice |-> ret.value, metrics |-> args.metrics]
    /\ ret' = Returned(get_advice_summary(ret.value))
    /\ UNCHANGED <<runVars, moduleVars>>

SpecAdvice == AdviceInit /\ [][CallGenerateAdvice \/ CallGetAdviceSummary]_vars

\* The list holds the fallback exactly when nothing else was found for it,
\* and then nothing but the fallback
FallbackRule(list, fallback, nothing_found) ==
    /\ (\E i \in 1..Len(list) : list[i] = fallback) <=> nothing_found
    /\ nothing_found => list = <<fallback>>

\* The analysis of the record of the call
ArgAnalysis == _analyze_metrics(args.metrics, DictGet(args.metrics, "shot_type", "UNKNOWN"))

\* No recommendation is found: the category has no tips, and none of the
\* first three flaws has a recommendation
NoRecommendation ==
    LET shot_type == DictGet(args.metrics, "shot_type", "UNKNOWN")
        flaws == Take(priority_flaws(ArgAnalysis), 3)
    IN  /\ shot_type \notin DOMAIN shot_specific_advice
        /\ \A i \in 1..Len(flaws) :
              RecommendationFeedback(flaws[i].metric, shot_type) = EmptyString

\* C14: generate_advice returns 1 to 3 strengths, 1 to 4 flaws and 1 to 5
\* recommendations; a list holds its generic fallback string only when it
\* would otherwise be empty, and then as its only entry.
C14_ListLengths ==
    (args.fn = "generate_advice" /\ ret.called) =>
        /\ Len(ret.value.strengths) \in 1..3
        /\ Len(ret.value.flaws) \in 1..4
        /\ Len(ret.value.recommendations) \in 1..5
        /\ FallbackRule(ret.value.strengths, StrengthsFallback,
                        \A i \in 1..Len(ArgAnalysis) : ArgAnalysis[i].status # "excellent")
        /\ FallbackRule(ret.value.flaws, FlawsFallback,
                        \A i \in 1..Len(ArgAnalysis) : ArgAnalysis[i].status = "excellent")
        /\ FallbackRule(ret.value.recommendations, RecommendationsFallback, NoRecommendation)

\* Six metrics are excellent and three are listed; no flaw is found and the
\* flaws hold the fallback
C14_Witness ==
    /\ args.fn = "generate_advice"
    /\ ret.called
    /\ Len(SelectSeq(ArgAnalysis, LAMBDA a : a.status = "excellent")) = 6
    /\ Len(ret.value.strengths) = 3
    /\ ret.value.flaws = <<FlawsFallback>>

\* A string is contained in a line of the summary
Contains(lines, s) ==
    \E i \in 1..Len(lines) :
        \E k \in 0..(Len(lines[i]) - Len(s)) : SubSeq(lines[i], k + 1, k + Len(s)) = s

SummaryReturned == args.fn = "get_advice_summary" /\ ret.called

\* C15 as stated: the summary of the advice for a record contains the
\* category label and every string of the strengths and of the flaws, for
\* every record, also when the category is UNKNOWN, absent or outside the
\* advice table.
C15_SummaryContainsAll ==
    SummaryReturned =>
        /\ Contains(ret.value, Text(DictGet(args.metrics, "shot_type", "UNKNOWN")))
        /\ \A i \in 1..Len(args.advice.strengths) : Contains(ret.value, args.advice.strengths[i])
        /\ \A i \in 1..Len(args.advice.flaws) : Contains(ret.value, args.advice.flaws[i])

\* C15 amended: the summary contains every string of the strengths and of
\* the flaws for every record; it contains the category label when the
\* record has a category other than UNKNOWN (also one outside the advice
\* table), and has no category line when the category is UNKNOWN or absent.
C15_SummaryContainsKnown ==
    SummaryReturned =>
        /\ Contains(ret.value, Text(DictGet(args.metrics, "shot_type", "UNKNOWN")))
              <=> DictGet(args.metrics, "shot_type", "UNKNOWN") # "UNKNOWN"
        /\ \A i \in 1..Len(args.advice.strengths) : Contains(ret.value, args.advice.strengths[i])
        /\ \A i \in 1..Len(args.advice.flaws) : Contains(ret.value, args.advice.flaws[i])

\* The summary for a category outside the advice table, with a strength and
\* a flaw that are not the fallbacks
C15_Witness ==
    /\ SummaryReturned
    /\ DictGet(args.metrics, "shot_type", "UNKNOWN") = "SCOOP"
    /\ Contains(ret.value, Text("SCOOP"))
    /\ args.advice.strengths # <<StrengthsFallback>>
    /\ args.advice.flaws # <<FlawsFallback>>

-----------------------------------------------------------------------------
(* A session of one CricketAdviceEngine: advice for a record, then the
   narrative for that advice, any number of times *)

\* A call that ended in an exception
Raises(e) == [called |-> TRUE, raised |-> e]

\* Lines 14-23: what get_openai_client() comes to.  The package openai is
\* "installed" or "missing" (ImportError, swallowed at line 21); the
\* constructor OpenAI(api_key=...) is "ok" or "raises" an exception that is
\* not an ImportError, which no handler catches
get_openai_client(package, construct) ==
    IF openai_client = "None" /\ OPENAI_API_KEY # ""
    THEN IF package = "missing" THEN [client |-> "None"]
         ELSE IF construct = "raises" THEN [raised |-> "OpenAI() raised"]
         ELSE [client |-> "OpenAI"]
    ELSE [client |-> openai_client]

\* Line 716: the text the collaborator answered
LlmContent == <<[llm |-> "response.choices[0].message.content.strip()"]>>

\* Lines 666-720: the outcome, given the client and what
\* client.chat.completions.create does: it answers with "content", it
\* "raises", or its answer is "malformed" (no choice, no content), which
\* raises inside the try block as well
NarrativeOutcome(got, reply, advice) ==
    IF "raised" \in DOMAIN got THEN Raises(got.raised)
    ELSE IF got.client = "None" THEN Returned(_generate_fallback_narrative(advice))
    ELSE IF reply = "content" THEN Returned(LlmContent)
    ELSE Returned(_generate_fallback_narrative(advice))

\* The records of the session
SessionRecords ==
    {AdviceRecordOf([m \in AdviceMetricKeys |-> i], t) :
        i \in 0..2, t \in {"DRIVE", "UNKNOWN", "absent"}}

SessionInit ==
    /\ RunInit
    /\ OPENAI_API_KEY \in {"", "sk-key"}
    /\ openai_client = "None"
    /\ random_state \in RandomStates
    /\ args = NoArgs
    /\ ret = NoRet

\* engine.generate_advice(m)
GenerateAdvice(m) ==
    /\ args' = [fn |-> "generate_advice", metrics |-> m]
    /\ AdviceCall(m)

\* engine.generate_llm_narrative(advice, metrics) for the advice last returned
GenerateLlmNarrative(package, construct, reply) ==
    /\ \/ args.fn = "generate_advice" /\ ret.called
       \/ args.fn = "generate_llm_narrative"
    /\ LET advice == IF args.fn = "generate_advice" THEN ret.value ELSE args.advice
           got == get_openai_client(package, construct)
       IN  /\ args' = [fn |-> "generate_llm_narrative", advice |-> advice,
                       metrics |-> args.metrics, package |-> package,
                       construct |-> construct, reply |-> reply]
           /\ openai_client' = IF "client" \in DOMAIN got THEN got.client ELSE openai_client
           /\ ret' = NarrativeOutcome(got, reply, advice)
    /\ UNCHANGED <<runVars, OPENAI_API_KEY, random_state>>

SessionNext ==
    \/ \E m \in SessionRecords : GenerateAdvice(m)
    \/ \E package \in {"installed", "missing"}, construct \in {"ok", "raises"},
          reply \in {"content", "raises", "malformed"} :
          GenerateLlmNarrative(package, construct, reply)

SpecSession == SessionInit /\ [][SessionNext]_vars

\* C16: generate_llm_narrative never raises; when the collaborator is absent
\* (no key, or the package missing), cannot be constructed, or fails during
\* the call, the fallback sentence for the advice is returned.
C16_NarrativeNeverRaises ==
    args.fn = "generate_llm_narrative" =>
        /\ "raised" \notin DOMAIN ret
        /\ (openai_client = "None" \/ args.reply # "content")
              => ret = Returned(_generate_fallback_narrative(args.advice))

\* C17: generate_advice draws the drill from an injected source only: a
\* call leaves the global generator of the module random as it was, and a
\* call on the record of the call before returns what that call returned.
C17_InjectedSourceOnly ==
    [][(args'.fn = "generate_advice" /\ ret'.called) =>
          /\ random_state' = random_state
          /\ (args.fn = "generate_advice" /\ ret.called /\ args'.metrics = args.metrics)
                => ret' = ret]_vars

-----------------------------------------------------------------------------
(* The classifier's inputs and the aggregated record *)

\* C18: the rotation and the shift that detect_shot_type tests are the
\* body_rotation_total and the weight_transfer_amount of the run's final
\* record, whichever accumulators hold no sample.
C18_ClassifierInputsAreAggregates ==
    pc \in {"yield_final", "done"} /\ capOpened =>
        /\ ShotFeatures(phase_data).body_rotation = final_metrics["body_rotation_total"]
        /\ ShotFeatures(phase_data).weight_shift = final_metrics["weight_transfer_amount"]


\* The frame just read is a detected one
DetectedStep == frames_read' = frames_read + 1 /\ frame'.detected

\* Lines 139-140 hold for the frame f: check 1 and check 2 on the wrist height
BothChecks(f) == f.wrist_y * 10 < f.nose_y * 11 /\ f.wrist_y * 10 > f.nose_y * 9

\* The sample of frame f is the last one of the series of phase p, which
\* are otherwise as in pd
SampleAppendedTo(pd, pd2, p, f) ==
    /\ pd2[p].knee_angles = Append(pd[p].knee_angles, f.left_knee_angle)
    /\ pd2[p].leg_directions = Append(pd[p].leg_directions, f.front_leg_direction)
    /\ pd2[p].body_directions = Append(pd[p].body_directions, f.body_direction)
    /\ pd2[p].head_directions = Append(pd[p].head_directions, f.head_direction)
    /\ pd2[p].weight_transfers = Append(pd[p].weight_transfers, f.weight_transfer)

\* C19: a detected frame processed in STANCE, or as the first frame, that
\* passes check 1 and check 2 and whose wrist is past the trailing shoulder
\* ends in FOLLOW_THROUGH; the one sample of a detected frame goes to the
\* accumulator of the phase the frame ends in, and every other accumulator
\* is left as it was.
C19_CascadeInOneFrame ==
    [][DetectedStep =>
          /\ (stage \in {"UNKNOWN", "STANCE"} /\ BothChecks(frame')
                  /\ frame'.wrist_x > frame'.shoulder_x)
                => stage' = "FOLLOW_THROUGH"
          /\ SampleAppendedTo(phase_data, phase_data', stage', frame')
          /\ \A p \in DOMAIN phase_data : p # stage' => phase_data'[p] = phase_data[p]]_vars

\* After samples in STANCE a frame cascaded to FOLLOW_THROUGH: BACKLIFT and
\* DOWNSWING, passed through within that frame, hold nothing
C19_Witness ==
    /\ stage = "FOLLOW_THROUGH"
    /\ frame = Cascade
    /\ follow_through_frames = 1
    /\ Series("STANCE") # <<>>
    /\ Series("BACKLIFT") = <<>>
    /\ Series("DOWNSWING") = <<>>
    /\ phase_data["FOLLOW_THROUGH"].body_directions = <<Cascade.body_direction>>

-----------------------------------------------------------------------------
(* The aggregation of analyze_cricket_shot, lines 188-222, applied to phase
   accumulators of every shape *)

MaxSamples == 2    \* samples in one phase accumulator

AggregateFrames == {Lift, Through}

RECURSIVE SampleLists(_)
SampleLists(n) ==
    IF n = 0 THEN {<<>>}
    ELSE SampleLists(n - 1)
         \cup {Append(l, f) : l \in {k \in SampleLists(n - 1) : Len(k) = n - 1},
                              f \in AggregateFrames}

RECURSIVE AppendAll(_, _, _)
AppendAll(pd, p, fs) ==
    IF fs = <<>> THEN pd ELSE AppendAll(AppendSample(pd, p, Head(fs)), p, Tail(fs))

AccumulatorsOf(s, b, d, t) ==
    AppendAll(AppendAll(AppendAll(AppendAll(EmptyPhaseData, "STANCE", s),
                                  "BACKLIFT", b), "DOWNSWING", d), "FOLLOW_THROUGH", t)

AggregateInit ==
    /\ RunInit
    /\ ModuleInit
    /\ \E s \in SampleLists(MaxSamples), b \in SampleLists(MaxSamples),
          d \in SampleLists(MaxSamples), t \in SampleLists(MaxSamples) :
          args = [fn |-> "final_metrics", phase_data |-> AccumulatorsOf(s, b, d, t)]
    /\ ret = NoRet

CallFinalMetrics ==
    /\ args.fn = "final_metrics"
    /\ ~ret.called
    /\ ret' = Returned(FinalMetrics(args.phase_data))
    /\ UNCHANGED <<runVars, args, moduleVars>>

SpecAggregate == AggregateInit /\ [][CallFinalMetrics]_vars

\* The conventions of the aggregation: the mean and the last element of a
\* list, 0 for the empty list
MeanOrZero(l) == IF Len(l) = 0 THEN R(0) ELSE RDiv(SumSeq(l), R(Len(l)))
LastOrZero(l) == IF Len(l) = 0 THEN R(0) ELSE l[Len(l)]

\* C20: for every combination of empty and non-empty accumulators the final
\* record holds every scalar key, each equal to its formula with
\* mean(empty) = 0 and last(empty) = 0 (max_elbow_angle = 0 when DOWNSWING
\* recorded no elbow angle); body_rotation_total and head_movement are not
\* negative; the aggregation does not fail.
C20_AggregationTotal ==
    ret.called =>
        LET pd == args.phase_data
            S == pd["STANCE"]
            D == pd["DOWNSWING"]
            m == ret.value
        IN  /\ "raised" \notin DOMAIN ret
            /\ ScalarKeys \cup {"shot_type", "shot_confidence", "body_rotation_over_time"}
                   \subseteq DOMAIN m
            /\ m["stance_body_direction"] = MeanOrZero(S.body_directions)
            /\ m["impact_body_direction"] = LastOrZero(D.body_directions)
            /\ m["stance_leg_direction"] = MeanOrZero(S.leg_directions)
            /\ m["impact_leg_direction"] = LastOrZero(D.leg_directions)
            /\ m["body_rotation_total"] =
                   RAbs(RSub(MeanOrZero(S.body_directions), LastOrZero(D.body_directions)))
            /\ m["weight_transfer_amount"] =
                   RMul(RSub(LastOrZero(D.weight_transfers), MeanOrZero(S.weight_transfers)),
                        R(100))
            /\ D.elbow_angles = <<>> => m["max_elbow_angle"] = R(0)
            /\ D.elbow_angles # <<>> =>
                   /\ \E i \in 1..Len(D.elbow_angles) : m["max_elbow_angle"] = D.elbow_angles[i]
                   /\ \A i \in 1..Len(D.elbow_angles) : RLe(D.elbow_angles[i], m["max_elbow_angle"])
            /\ m["stance_knee_angle"] = MeanOrZero(S.knee_angles)
            /\ m["downswing_knee_angle"] = MeanOrZero(D.knee_angles)
            /\ m["stance_head_direction"] = MeanOrZero(S.head_directions)
            /\ m["downswing_head_direction"] = MeanOrZero(D.head_directions)
            /\ m["head_movement"] =
                   RAbs(RSub(MeanOrZero(S.head_directions), MeanOrZero(D.head_directions)))
            /\ m["knee_bracing"] = RSub(MeanOrZero(D.knee_angles), MeanOrZero(S.knee_angles))
            /\ m["body_rotation_over_time"] =
                   S.body_directions \o pd["BACKLIFT"].body_directions
                   \o D.body_directions \o pd["FOLLOW_THROUGH"].body_directions
            /\ RLe(R(0), m["body_rotation_total"])
            /\ RLe(R(0), m["head_movement"])

\* The record of accumulators with STANCE empty and two different samples
\* in DOWNSWING: the stance side is 0 by convention and the impact side is
\* the last sample
C20_Witness ==
    /\ args.fn = "final_metrics"
    /\ ret.called
    /\ args.phase_data["STANCE"].knee_angles = <<>>
    /\ args.phase_data["BACKLIFT"].knee_angles # <<>>
    /\ args.phase_data["DOWNSWING"].body_directions = <<Through.body_direction, Lift.body_direction>>
    /\ ret.value["body_rotation_total"] = Lift.body_direction
    /\ ret.value["stance_knee_angle"] = R(0)


-----------------------------------------------------------------------------
(* The order of the flaws *)

\* The evaluation order of the metrics
EvaluationOrder ==
    <<"elbow_angle", "weight_transfer", "body_rotation", "head_stability",
      "knee_bracing", "stance_knee">>

EvaluationIndex(metric) == CHOOSE i \in 1..Len(EvaluationOrder) : EvaluationOrder[i] = metric

\* The sort key of a flawed metric: poor (high) before needs_improvement
\* (medium), then the evaluation order
FlawKey(a) == (IF a.status = "poor" THEN 0 ELSE 10) + EvaluationIndex(a.metric)

\* The entries of a set of analysed metrics by ascending key
RECURSIVE ByFlawKey(_)
ByFlawKey(entries) ==
    IF entries = {} THEN <<>>
    ELSE LET first == CHOOSE a \in entries : \A b \in entries : FlawKey(a) <= FlawKey(b)
         IN  <<first>> \o ByFlawKey(entries \ {first})

\* The flawed metrics of the record of the call, in the order of the claim
ArgFlawOrder ==
    ByFlawKey({ArgAnalysis[i] : i \in {k \in 1..Len(ArgAnalysis) :
                                        ArgAnalysis[k].status \in {"poor", "needs_improvement"}}})

\* C21: the flaws are the poor metrics before those that need improvement,
\* each group in evaluation order, cut to the first 4; the metric
\* recommendations come from the first 3 of the same ordering, in that order.
C21_FlawsByPriority ==
    (args.fn = "generate_advice" /\ ret.called) =>
        LET shot_type == DictGet(args.metrics, "shot_type", "UNKNOWN")
            top4 == Take(ArgFlawOrder, 4)
            top3 == Take(ArgFlawOrder, 3)
            recs == SelectSeq([i \in 1..Len(top3) |->
                                  RecommendationFeedback(top3[i].metric, shot_type)],
                              LAMBDA r : r # EmptyString)
        IN  /\ ArgFlawOrder # <<>> =>
                  ret.value.flaws = [i \in 1..Len(top4) |->
                                        FlawFeedback(top4[i].metric, top4[i].value, shot_type)]
            /\ Len(ret.value.recommendations) >= Len(recs)
            /\ SubSeq(ret.value.recommendations, 1, Len(recs)) = recs

\* A record with five poor metrics and, evaluated before two of them, one
\* that needs improvement: the sort moves it back and the cut drops it
C21_Witness ==
    /\ args.fn = "generate_advice"
    /\ ret.called
    /\ Len(ArgFlawOrder) = 6
    /\ \E i, j \in 1..Len(ArgAnalysis) :
          /\ i < j
          /\ ArgAnalysis[i].status = "needs_improvement"
          /\ ArgAnalysis[j].status = "poor"
    /\ Len(ret.value.flaws) = 4
    /\ Len(ret.value.recommendations) = 5


\* C22: every entry of the strengths, the flaws and the recommendations
\* returned by generate_advice is a non-empty text.
C22_EntriesNonEmpty ==
    (args.fn = "generate_advice" /\ ret.called) =>
        /\ \A i \in 1..Len(ret.value.strengths) : ret.value.strengths[i] # EmptyString
        /\ \A i \in 1..Len(ret.value.flaws) : ret.value.flaws[i] # EmptyString
        /\ \A i \in 1..Len(ret.value.recommendations) :
              ret.value.recommendations[i] # EmptyString


-----------------------------------------------------------------------------
(* CricketAdviceEngine._analyze_metrics applied to records of every category *)

AnalyzeValues ==
    [max_elbow_angle |-> <<R(140), R(160), R(170)>>,
     weight_transfer_amount |-> <<R(1), R(4), R(10)>>,
     body_rotation_total |-> <<R(10), R(30), R(50)>>,
     head_movement |-> <<R(5), R(9), R(25)>>,
     knee_bracing |-> <<R(10)>>,
     stance_knee_angle |-> <<R(130)>>]

AnalyzeChoices ==
    {c \in [DOMAIN AnalyzeValues -> 0..3] :
        \A m \in DOMAIN AnalyzeValues : c[m] <= Len(AnalyzeValues[m])}

AnalyzeRecords ==
    {[m \in {k \in DOMAIN AnalyzeValues : c[k] # 0} |-> AnalyzeValues[m][c[m]]] :
        c \in AnalyzeChoices}

\* The categories of the advice table, UNKNOWN and a category outside the table
AnalyzeCategories == DOMAIN shot_specific_advice \cup {"UNKNOWN", "SCOOP"}

AnalyzeInit ==
    /\ RunInit
    /\ ModuleInit
    /\ \E m \in AnalyzeRecords, t \in AnalyzeCategories :
          args = [fn |-> "_analyze_metrics", metrics |-> m, shot_type |-> t]
    /\ ret = NoRet

CallAnalyzeMetrics ==
    /\ args.fn = "_analyze_metrics"
    /\ ~ret.called
    /\ ret' = Returned(_analyze_metrics(args.metrics, args.shot_type))
    /\ UNCHANGED <<runVars, args, moduleVars>>

SpecAnalyze == AnalyzeInit /\ [][CallAnalyzeMetrics]_vars

\* The four groups of categories
CategoryGroup(t) ==
    IF t \in {"DRIVE", "FORWARD SHOT", "LOFTED"} THEN "forward"
    ELSE IF t = "DEFENSIVE" THEN "defensive"
    ELSE IF t \in {"PULL/HOOK", "CUT", "SWEEP"} THEN "rotational"
    ELSE "generic"

\* The analysed metrics with their status
StatusOf(analysis) ==
    [i \in 1..Len(analysis) |-> <<analysis[i].metric, analysis[i].status>>]

\* C23: the analysed metrics and their status are the same for every
\* category of the group of the category of the call.
C23_BandingByGroup ==
    (args.fn = "_analyze_metrics" /\ ret.called) =>
        \A t \in AnalyzeCategories :
            CategoryGroup(t) = CategoryGroup(args.shot_type) =>
                StatusOf(_analyze_metrics(args.metrics, t)) = StatusOf(ret.value)

\* The key of the record an analysed metric was read from
MetricKeyOf(metric) ==
    CASE metric = "elbow_angle" -> "max_elbow_angle"
      [] metric = "weight_transfer" -> "weight_transfer_amount"
      [] metric = "body_rotation" -> "body_rotation_total"
      [] metric = "head_stability" -> "head_movement"
      [] metric = "knee_bracing" -> "knee_bracing"
      [] metric = "stance_knee" -> "stance_knee_angle"

\* C24: a value of one of the four compared metrics is rated excellent
\* exactly when it lies inside the optimal range ImprovementEngine scores
\* the category and the metric against, that is when its score is at least 80.
C24_OneBand ==
    (args.fn = "_analyze_metrics" /\ ret.called) =>
        \A i \in 1..Len(ret.value) :
            LET key == MetricKeyOf(ret.value[i].metric)
                range == _get_optimal_range(key, args.shot_type)
            IN  key \in MetricKeysOf(comparison_metrics) =>
                    /\ ret.value[i].status = "excellent"
                          <=> (RLe(R(range[1]), ret.value[i].value)
                               /\ RLe(ret.value[i].value, R(range[2])))
                    /\ ret.value[i].status = "excellent"
                          <=> RLe(R(80), _calculate_metric_score(ret.value[i].value, range))


-----------------------------------------------------------------------------
(* ImprovementEngine.generate_improvement_feedback *)

\* "{x:.0f}" of a number that may be negative (not between -0.5 and 0)
FmtSigned0(x) == IF x.n < 0 THEN 0 - Fmt0(RAbs(x)) ELSE Fmt0(x)

\* Lines 1016-1043: the summary for the verdict
FeedbackSummary(analysis) ==
    IF analysis.overall_verdict = "IMPROVED" THEN
        <<Lit("Excellent work! Your accuracy improved from "), [num0 |-> Fmt0(analysis.original_accuracy)], Lit("/100 to "), [num0 |-> Fmt0(analysis.followup_accuracy)], Lit("/100. Your dedication to practice is paying off.")>>
    ELSE IF analysis.overall_verdict = "REGRESSED" THEN
        <<Lit("Your accuracy dropped from "), [num0 |-> Fmt0(analysis.original_accuracy)], Lit("/100 to "), [num0 |-> Fmt0(analysis.followup_accuracy)], Lit("/100. Don't be discouraged - this often happens when making technical changes. Review the original advice and try again.")>>
    ELSE IF analysis.overall_verdict = "SLIGHT_IMPROVEMENT" THEN
        <<Lit("You're making progress! Accuracy moved from "), [num0 |-> Fmt0(analysis.original_accuracy)], Lit("/100 to "), [num0 |-> Fmt0(analysis.followup_accuracy)], Lit("/100. Keep working on the areas highlighted below.")>>
    ELSE IF analysis.overall_verdict = "SLIGHT_REGRESSION" THEN
        <<Lit("Your accuracy dipped slightly from "), [num0 |-> Fmt0(analysis.original_accuracy)], Lit("/100 to "), [num0 |-> Fmt0(analysis.followup_accuracy)], Lit("/100. Focus on the fundamentals and try again.")>>
    ELSE
        <<Lit("Your technique is consistent at "), [num0 |-> Fmt0(analysis.followup_accuracy)], Lit("/100. To see improvement, focus specifically on the areas marked for improvement.")>>

\* Lines 1045-1049
ImprovementLine(area) ==
    <<Lit("[check] "), Lit(area.name), Lit(": Improved from "), Num1(area.from_value), Lit(area.unit), Lit(" to "), Num1(area.to_value), Lit(area.unit), Lit(" (+"), [num0 |-> FmtSigned0(area.change)], Lit(" points)")>>

\* Lines 1052-1056
RegressionLine(area) ==
    <<Lit("[warn] "), Lit(area.name), Lit(": Regressed from "), Num1(area.from_value), Lit(area.unit), Lit(" to "), Num1(area.to_value), Lit(area.unit), Lit(" ("), [num0 |-> FmtSigned0(area.change)], Lit(" points)")>>

\* Lines 1073-1105: the recommendation for a regressed metric
FocusFor(metric, shot_type) ==
    IF metric = "max_elbow_angle" THEN
        <<Text("[target] Focus on elbow extension - keep your front arm straighter through the shot")>>
    ELSE IF metric = "weight_transfer_amount" THEN
        IF shot_type \in {"DRIVE", "FORWARD SHOT", "LOFTED"} THEN
            <<Text("[target] Work on weight transfer - commit more to moving forward into the shot")>>
        ELSE
            <<Text("[target] Adjust weight distribution - for this shot, stay more balanced or back")>>
    ELSE IF metric = "body_rotation_total" THEN
        IF shot_type \in {"PULL/HOOK", "CUT", "SWEEP"} THEN
            <<Text("[target] Generate more power through hip and shoulder rotation")>>
        ELSE IF shot_type = "DEFENSIVE" THEN
            <<Text("[target] Minimize body rotation - defensive shots need stillness")>>
        ELSE
            <<Text("[target] Optimize body rotation for better power and control")>>
    ELSE IF metric = "head_movement" THEN
        <<Text("[target] Keep your head still - excessive movement disrupts timing")>>
    ELSE <<>>

RECURSIVE FocusOfAreas(_, _)
FocusOfAreas(areas, shot_type) ==
    IF areas = <<>> THEN <<>>
    ELSE FocusFor(Head(areas).metric, shot_type) \o FocusOfAreas(Tail(areas), shot_type)

\* Lines 1108-1115: the general recommendations
GeneralFocus(overall_verdict) ==
    (IF overall_verdict \in {"MAINTAINED", "SLIGHT_REGRESSION"}
     THEN <<Text("[target] Focus on consistency - practice the same shot repeatedly with attention to form")>>
     ELSE <<>>)
    \o <<Text("[target] Continue working on timing and balance throughout your shot")>>

\* Mutant: the recommendations returned uncut
_get_focus_recommendations_uncut(analysis) ==
    LET recommendations == FocusOfAreas(analysis.regressed_areas, analysis.shot_type)
    IN  IF recommendations = <<>> THEN GeneralFocus(analysis.overall_verdict)
        ELSE recommendations

\* Lines 1068-1117
_get_focus_recommendations(analysis) ==
    LET recommendations == FocusOfAreas(analysis.regressed_areas, analysis.shot_type)
    IN  Take(IF recommendations = <<>> THEN GeneralFocus(analysis.overall_verdict)
             ELSE recommendations, 3)

\* Lines 1125-1152: drill_database
drill_database ==
    [max_elbow_angle |->
        <<Text("Shadow batting drill: Practice with focus on full arm extension at impact point"),
          Text("Wall drill: Stand sideways to wall, practice extending arm without hitting wall"),
          Text("Mirror work: Watch your elbow position throughout the swing")>>,
     weight_transfer_amount |->
        [forward |->
            <<Text("Step and drive: Exaggerate stepping into the shot during practice"),
              Text("Single stump drill: Focus on driving through the line towards a single stump"),
              Text("Weighted bat practice: Builds strength for committed forward movement")>>,
         back |->
            <<Text("Back foot punch drill: Practice quick weight shifts to back foot"),
              Text("Short ball reaction drill: Tennis ball bouncer practice for back foot shots")>>],
     body_rotation_total |->
        <<Text("Hip rotation exercise: Practice rotating hips while keeping head still"),
          Text("Core strengthening: Planks and rotational exercises improve power generation"),
          Text("Resistance band rotation: Builds muscle memory for proper rotation")>>,
     head_movement |->
        <<Text("Balance book drill: Practice with object balanced on head (forces stillness)"),
          Text("Eyes on ball drill: Track the ball with only your eyes, not your head"),
          Text("Video analysis: Record yourself and check head position frame by frame")>>]

\* Lines 1155-1163: the drill for a regressed metric
RegressedDrill(metric, shot_type) ==
    IF metric = "weight_transfer_amount" THEN
        IF shot_type \in {"DRIVE", "FORWARD SHOT", "LOFTED"}
        THEN Take(drill_database["weight_transfer_amount"].forward, 1)
        ELSE Take(drill_database["weight_transfer_amount"].back, 1)
    ELSE IF metric \in DOMAIN drill_database THEN <<drill_database[metric][1]>>
    ELSE <<>>

RECURSIVE RegressedDrills(_, _)
RegressedDrills(areas, shot_type) ==
    IF areas = <<>> THEN <<>>
    ELSE RegressedDrill(Head(areas).metric, shot_type)
         \o RegressedDrills(Tail(areas), shot_type)

\* Lines 1166-1170: the drills after the loop over the maintained areas.
\* The entry of weight_transfer_amount is a dict, not a list, and is skipped.
RECURSIVE MaintainedDrills(_, _)
MaintainedDrills(drills, areas) ==
    IF areas = <<>> THEN drills
    ELSE LET metric == Head(areas).metric
             entry == drill_database[metric]
         IN  MaintainedDrills(
                 IF metric \in DOMAIN drill_database /\ Len(drills) < 3
                    /\ metric # "weight_transfer_amount"
                 THEN Append(drills, IF Len(entry) > 1 THEN entry[2] ELSE entry[1])
                 ELSE drills,
                 Tail(areas))

\* Lines 1173-1175
GeneralDrills ==
    <<Text("General: Practice the shot 20-30 times focusing on one aspect at a time"),
      Text("Video review: Record each session and compare to identify patterns")>>

\* Lines 1119-1177
_get_improvement_drills(analysis) ==
    LET drills == MaintainedDrills(RegressedDrills(analysis.regressed_areas, analysis.shot_type),
                                   analysis.maintained_areas)
    IN  Take(IF Len(drills) < 2 THEN drills \o GeneralDrills ELSE drills, 4)

\* Lines 1002-1066
generate_improvement_feedback(analysis) ==
    [summary |-> FeedbackSummary(analysis),
     improvements |-> [i \in 1..Len(analysis.improved_areas) |->
                          ImprovementLine(analysis.improved_areas[i])],
     regressions |-> [i \in 1..Len(analysis.regressed_areas) |->
                         RegressionLine(analysis.regressed_areas[i])],
     focus_areas |-> _get_focus_recommendations(analysis),
     drills |-> _get_improvement_drills(analysis)]

-----------------------------------------------------------------------------
(* analyze_improvement, then generate_improvement_feedback on its result *)

FeedbackChoices == [MetricKeys -> 0..2]

FeedbackOriginals ==
    {RecordOf(c, t) : c \in FeedbackChoices, t \in {"DRIVE", "PULL/HOOK", "DEFENSIVE", "absent"}}
FeedbackFollowups == {RecordOf(c, "absent") : c \in FeedbackChoices}

FeedbackInit ==
    /\ RunInit
    /\ ModuleInit
    /\ \E o \in FeedbackOriginals, f \in FeedbackFollowups :
          args = [fn |-> "analyze_improvement", original_metrics |-> o, followup_metrics |-> f]
    /\ ret = NoRet

CallGenerateImprovementFeedback ==
    /\ args.fn = "analyze_improvement"
    /\ ret.called
    /\ args' = [fn |-> "generate_improvement_feedback", analysis |-> ret.value]
    /\ ret' = Returned(generate_improvement_feedback(ret.value))
    /\ UNCHANGED <<runVars, moduleVars>>

SpecFeedback ==
    FeedbackInit /\ [][CallAnalyzeImprovement \/ CallGenerateImprovementFeedback]_vars

NoDuplicates(list) == \A i, j \in 1..Len(list) : list[i] = list[j] => i = j

Minimum(a, b) == IF a <= b THEN a ELSE b

\* C25: the feedback holds 1 to 3 focus strings without duplicates, one for
\* each regressed metric in metric order or, when no metric regressed, the
\* general text only; and 2 to 4 drills without duplicates, the general
\* drills among them exactly when fewer than 2 drills came from the metrics.
C25_FocusAndDrills ==
    (args.fn = "generate_improvement_feedback" /\ ret.called) =>
        LET regressed == args.analysis.regressed_areas
            focus == ret.value.focus_areas
            drills == ret.value.drills
            general == {GeneralDrills[i] : i \in 1..Len(GeneralDrills)}
            fromMetrics == {i \in 1..Len(drills) : drills[i] \notin general}
        IN  /\ Len(focus) \in 1..3
            /\ NoDuplicates(focus)
            /\ regressed # <<>> =>
                  /\ Len(focus) = Minimum(Len(regressed), 3)
                  /\ \A i \in 1..Len(focus) :
                        <<focus[i]>> = FocusFor(regressed[i].metric, args.analysis.shot_type)
            /\ regressed = <<>> => focus = GeneralFocus(args.analysis.overall_verdict)
            /\ Len(drills) \in 2..4
            /\ NoDuplicates(drills)
            /\ (fromMetrics # DOMAIN drills) <=> Cardinality(fromMetrics) < 2

\* All four metrics regressed (the focus list is cut to 3 and the drills
\* are the four of the metrics)
C25_Witness ==
    /\ args.fn = "generate_improvement_feedback"
    /\ ret.called
    /\ Len(args.analysis.regressed_areas) = 4
    /\ Len(ret.value.focus_areas) = 3
    /\ Len(ret.value.drills) = 4


-----------------------------------------------------------------------------
(* The accumulators and the follow-through counter during a run *)

\* The series of every phase have one length, and elbow_angles is kept for
\* DOWNSWING only, with that length
Aligned(pd) ==
    \A p \in DOMAIN pd :
        /\ Len(pd[p].leg_directions) = Len(pd[p].knee_angles)
        /\ Len(pd[p].body_directions) = Len(pd[p].knee_angles)
        /\ Len(pd[p].head_directions) = Len(pd[p].knee_angles)
        /\ Len(pd[p].weight_transfers) = Len(pd[p].knee_angles)
        /\ "elbow_angles" \in DOMAIN pd[p] <=> p = "DOWNSWING"
        /\ p = "DOWNSWING" => Len(pd[p].elbow_angles) = Len(pd[p].knee_angles)

\* C26: after any prefix of a run the series of each phase have equal
\* length, elbow_angles exists for DOWNSWING only and has the length of the
\* other DOWNSWING series, and the number of samples over the four phases is
\* the number of frames processed with landmarks: it starts at 0, grows by
\* one with every such frame and changes with no other step.
C26_AccumulatorsAligned ==
    /\ Aligned(phase_data)
    /\ TotalSamples(phase_data) = 0
    /\ [][/\ Aligned(phase_data')
          /\ TotalSamples(phase_data') =
                TotalSamples(phase_data) + (IF DetectedStep THEN 1 ELSE 0)]_vars

\* Samples in STANCE and in DOWNSWING, and a frame without landmarks read
C26_Witness ==
    /\ Series("STANCE") # <<>>
    /\ Len(phase_data["DOWNSWING"].elbow_angles) >= 1
    /\ frames_read > TotalSamples(phase_data)
    /\ frame = NoFrame


\* C27: the follow-through counter is the number of FOLLOW_THROUGH samples
\* and is at most 30; the frame that first reaches FOLLOW_THROUGH is counted,
\* a frame without landmarks is not, and no frame is read once the counter
\* is 30.
C27_CounterIsSamples ==
    /\ [](/\ follow_through_frames = Len(Series("FOLLOW_THROUGH"))
          /\ follow_through_frames <= FOLLOW_THROUGH_BUFFER)
    /\ [][/\ (stage # "FOLLOW_THROUGH" /\ stage' = "FOLLOW_THROUGH")
                => follow_through_frames' = 1
          /\ (frames_read' = frames_read + 1 /\ ~frame'.detected)
                => follow_through_frames' = follow_through_frames
          /\ follow_through_frames = FOLLOW_THROUGH_BUFFER
                => frames_read' = frames_read]_vars

\* A run stopped by the full buffer, with a frame without landmarks read
\* before or during the follow-through
C27_Witness ==
    /\ pc = "done"
    /\ follow_through_frames = FOLLOW_THROUGH_BUFFER
    /\ Len(Series("FOLLOW_THROUGH")) = FOLLOW_THROUGH_BUFFER
    /\ frames_read > TotalSamples(phase_data)


\* The body_direction samples of the four phases, in phase order
BodyDirections(pd) ==
    pd["STANCE"].body_directions \o pd["BACKLIFT"].body_directions
    \o pd["DOWNSWING"].body_directions \o pd["FOLLOW_THROUGH"].body_directions

\* C28: the body_direction samples concatenated in phase order are the
\* body_direction values of the frames with landmarks in the order the
\* frames were read: the concatenation is empty at the start, every such
\* frame adds its value at the end, no other step changes it, and
\* body_rotation_over_time of the final record is that concatenation.
C28_RotationChronological ==
    /\ BodyDirections(phase_data) = <<>>
    /\ [][BodyDirections(phase_data') =
             IF DetectedStep
             THEN Append(BodyDirections(phase_data), frame'.body_direction)
             ELSE BodyDirections(phase_data)]_vars
    /\ []((pc \in {"yield_final", "done"} /\ capOpened) =>
             final_metrics["body_rotation_over_time"] = BodyDirections(phase_data))

\* A finished run with two different samples in STANCE, the later frame's
\* value the smaller one, and a sample in a later phase
C28_Witness ==
    /\ pc = "done"
    /\ capOpened
    /\ Len(Series("STANCE")) = 2
    /\ RLt(phase_data["STANCE"].body_directions[2], phase_data["STANCE"].body_directions[1])
    /\ TotalSamples(phase_data) >= 3
    /\ Len(final_metrics["body_rotation_over_time"]) = TotalSamples(phase_data)


-----------------------------------------------------------------------------
(* Rules of the classifier shadowed by earlier ones *)

\* C29: CUT is returned only for 45 < rotation <= 50 (with shift < 3 and a
\* downswing shorter than the backlift), since rotation > 50 with shift < 5
\* is always PULL/HOOK; SWEEP is returned only for rotation > 60 with
\* shift >= 5.
C29_ShadowedRules ==
    (args.fn = "detect_shot_type" /\ ret.called) =>
        LET k == ShotFeatures(args.phase_data)
        IN  /\ ret.value.shot_type = "CUT" =>
                  /\ RLt(R(45), k.body_rotation) /\ RLe(k.body_rotation, R(50))
                  /\ RLt(k.weight_shift, R(3))
                  /\ k.downswing_len < k.backlift_len
            /\ (RLt(R(50), k.body_rotation) /\ RLt(k.weight_shift, R(5)))
                  => ret.value.shot_type = "PULL/HOOK"
            /\ ret.value.shot_type = "SWEEP" =>
                  RLt(R(60), k.body_rotation) /\ RLe(R(5), k.weight_shift)

\* CUT is returned at rotation 50, the largest rotation the PULL/HOOK rule
\* leaves to it
C29_Witness ==
    /\ args.fn = "detect_shot_type"
    /\ ret.called
    /\ ret.value.shot_type = "CUT"
    /\ ShotFeatures(args.phase_data).body_rotation = R(50)


-----------------------------------------------------------------------------
(* The verdict and the improvement score *)

\* C30: the verdict IMPROVED comes with an improvement score above 50 and at
\* least one improved metric, the verdict REGRESSED with a score below 50
\* and at least one regressed metric; the score lies between 0 and 100.
C30_VerdictMatchesScore ==
    (args.fn = "analyze_improvement" /\ ret.called) =>
        /\ ret.value.overall_verdict = "IMPROVED" =>
              /\ RLt(R(50), ret.value.improvement_score)
              /\ ret.value.improved_areas # <<>>
        /\ ret.value.overall_verdict = "REGRESSED" =>
              /\ RLt(ret.value.improvement_score, R(50))
              /\ ret.value.regressed_areas # <<>>
        /\ RLe(R(0), ret.value.improvement_score)
        /\ RLe(ret.value.improvement_score, R(100))

====
